---- MODULE Spec2Model ----
(***************************************************************************)
(* Storage routing and optimistic-concurrency layer of the configuration   *)
(* registry server: the HTTP handlers of src/lib/hapi.ts, the Registry     *)
(* facade of src/lib/registry.ts and the storage backends of               *)
(* src/lib/storage.ts.                                                     *)
(*                                                                         *)
(* Every await of a handler is a separate action, so that two requests     *)
(* interleave exactly where the code can be suspended.  The code between   *)
(* two awaits is synchronous and belongs to the action of the await that   *)
(* precedes it.                                                            *)
(***************************************************************************)
EXTENDS Integers, Sequences, FiniteSets, TLC

VARIABLES store, req, pre, started, route, reg, lease, acq, leaseId, files, hist, disk

vars == <<store, req, pre, started, route, reg, lease, acq, leaseId, files, hist, disk>>

\* ------------------------------------------------------------------------
\* Bounds of the model
\* ------------------------------------------------------------------------

\* Number of requests that may be in flight at the same time.
NumClients == 2

\* Number of requests the server receives in one behaviour.
MaxRequests == 2

\* Document identifiers 1..MaxDocId stand for different document contents.
MaxDocId == 2

\* ------------------------------------------------------------------------
\* Versions
\* ------------------------------------------------------------------------

\* The server's own api version (resolveApiVersion() / API_VERSION of the
\* protocol library).  Versions are totally ordered; a natural number stands
\* for a semantic version.
API_VERSION == 1

resolveApiVersion == API_VERSION

\* Version tags a stored blob can carry: the server's version, one below and
\* one above it.
Versions == (API_VERSION - 1) .. (API_VERSION + 1)

\* A version tag (blob metadata, request header) is optional: <<>> is a
\* missing tag, <<v>> the tag of version v.
NoVersion == <<>>

Tag(v) == <<v>>

\* A tag in which Semver.coerce finds no number, such as "latest".
NoDigits == <<-1>>

\* Semver.coerce returns null when the string holds no version.
Null == -1

\* A coercion that takes a missing tag for the server's own version.
CoerceMissingAsCurrent(tag) == IF tag = NoVersion THEN API_VERSION ELSE IF tag = NoDigits THEN Null ELSE tag[1]

\* Semver.coerce(tag ?? 'v0'): a missing tag is version 0, a tag without a
\* number is null.
CoerceVersion(tag) == IF tag = NoVersion THEN 0 ELSE IF tag = NoDigits THEN Null ELSE tag[1]

\* Semver.gt / Semver.eq
SemverGt(a, b) == a > b

SemverEq(a, b) == a = b

\* ------------------------------------------------------------------------
\* Documents and tokens
\* ------------------------------------------------------------------------

\* A parsed configuration document (RepoConfig): its content, named by the
\* identifier, and the api version it declares.
Docs == [kind : {"doc"}, id : 1 .. MaxDocId, apiVersion : {API_VERSION, API_VERSION + 1}]

\* A JavaScript string value where a document is expected.
JsString(s) == [kind |-> "str", s |-> s]

\* A request payload that is not a well-formed document.
Invalid == [kind |-> "invalid"]

\* `${value}` : a string is itself, a document object has no toString of
\* its own and becomes "[object Object]".
ObjectObject == "[object Object]"

TemplateString(v) == IF v.kind = "str" THEN v.s ELSE ObjectObject

\* config.calculateHash(): the content hash used as ETag / If-Match value.
\* It is a function of the document's content alone and never empty.
calculateHash(config) == <<"sha", config.id, config.apiVersion>>

\* The If-Match header is missing: req.headers['if-match'] is undefined.
NoToken == <<"undefined">>

Tokens == {NoToken} \cup {calculateHash(d) : d \in Docs}

\* RepoConfig.createNew(): a fresh identifier, stamped with the server's
\* version.
createNew(id) == [kind |-> "doc", id |-> id, apiVersion |-> resolveApiVersion]

\* JSON.stringify(config): the bytes of the blob.  A document serializes to
\* its hash form, a string to a JSON string literal.
JSONstringify(v) == IF v.kind = "doc" THEN [json |-> "object", id |-> v.id, apiVersion |-> v.apiVersion] ELSE [json |-> "string", s |-> v.s]

\* RepoConfig.parse(JSON.parse(bytes)) / RepoConfig.parse(req.payload): a
\* document, or a schema error.
Ok(v) == [ok |-> TRUE, val |-> v]

Throw(e) == [ok |-> FALSE, err |-> e]

RepoConfigParse(bytes) == IF bytes.json = "object" THEN Ok([kind |-> "doc", id |-> bytes.id, apiVersion |-> bytes.apiVersion]) ELSE Throw("Corrupt")

ParsePayload(payload) == IF payload.kind = "doc" THEN Ok(payload) ELSE Throw("Corrupt")

\* ------------------------------------------------------------------------
\* Keys, route table and routing (registry.ts)
\* ------------------------------------------------------------------------

\* The support qualifier is optional: <<>> is undefined, <<s>> is the string s.
NoSupport == <<>>

\* `${support ? `/${support}` : ''}` : undefined and the empty string are
\* both falsy and add nothing.
SupportPart(support) == IF support = NoSupport \/ support = <<"">> THEN <<>> ELSE support

\* A repository name that begins with a period.
DotName == ".github"

\* Path segments that begin with a period.  Minimatch is called without
\* options (registry.ts 50), so `dot` is off: such a segment is matched by
\* a pattern segment that spells it out, never by "*" or "**".
Hidden(f) == f \in {".", "..", DotName}

\* A glob pattern and a path are sequences of '/'-separated segments.  A
\* pattern segment is a literal, "*" (one non-empty segment) or "**" (any
\* number of segments).
SegmentMatch(f, p) == IF p = "*" THEN f # "" /\ ~Hidden(f) ELSE f = p

RECURSIVE MatchOne(_, _)
\* minimatch's matchOne(file, pattern): the segments are walked in step; a
\* "**" that ends the pattern swallows what is left of the file, a "**"
\* inside it tries every suffix of the file against the rest of the
\* pattern; a file that ends before the pattern does not match.  A "**"
\* swallows no segment that begins with a period.
MatchOne(file, pattern) ==
    IF file = <<>> \/ pattern = <<>>
    THEN (file = <<>> /\ pattern = <<>>) \/ (pattern = <<>> /\ file = <<"">>)
    ELSE IF Head(pattern) = "**"
         THEN IF Tail(pattern) = <<>>
              THEN \A k \in 1 .. Len(file) : ~Hidden(file[k])
              ELSE \E fr \in 1 .. Len(file) :
                       /\ MatchOne(SubSeq(file, fr, Len(file)), Tail(pattern))
                       /\ \A k \in 1 .. (fr - 1) : ~Hidden(file[k])
         ELSE SegmentMatch(Head(file), Head(pattern)) /\ MatchOne(Tail(file), Tail(pattern))

Minimatch(file, pattern) == MatchOne(file, pattern)

\* `${registry}/${namespace}/${name}${support ? `/${support}` : ''}`
Flatten(registry, namespace, name, support) == <<registry, namespace, name>> \o SupportPart(support)

\* Array.prototype.findLast in place of find.
FindLastBackend(backends, file) ==
    LET hits == {i \in 1 .. Len(backends) : \E j \in 1 .. Len(backends[i].patterns) : Minimatch(file, backends[i].patterns[j])}
    IN IF hits = {} THEN 0 ELSE CHOOSE i \in hits : \A k \in hits : i >= k

\* Array.prototype.find: the index of the first backend one of whose
\* patterns matches, 0 when there is none.
FindBackend(backends, file) ==
    LET hits == {i \in 1 .. Len(backends) : \E j \in 1 .. Len(backends[i].patterns) : Minimatch(file, backends[i].patterns[j])}
    IN IF hits = {} THEN 0 ELSE CHOOSE i \in hits : \A k \in hits : i <= k

\* A getBackend that falls back on the first backend of the table.
getBackendOrFirst(backends, registry, namespace, name, support) ==
    LET i == FindBackend(backends, Flatten(registry, namespace, name, support))
    IN IF i # 0 THEN Ok(backends[i])
       ELSE IF backends # <<>> THEN Ok(backends[1])
       ELSE Throw("NoBackendMatched")

\* Registry.getBackend: the resolved backend, or the error it throws.
getBackend(backends, registry, namespace, name, support) ==
    LET i == FindBackend(backends, Flatten(registry, namespace, name, support))
    IN IF i = 0 THEN Throw("NoBackendMatched") ELSE Ok(backends[i])

\* The route table of the server's configuration (config.storageBackends),
\* in declaration order: specific backends first, a catch-all last.
storageBackends ==
    << [name |-> "files", storageType |-> "file", patterns |-> << <<"file", "**">> >>],
       [name |-> "azure", storageType |-> "azureBlobStorage", patterns |-> << <<"az", "**">> >>],
       [name |-> "peer", storageType |-> "glfs", patterns |-> << <<"glfs", "*", "*">> >>],
       [name |-> "s3", storageType |-> "s3", patterns |-> << <<"**">> >>] >>

\* The backends that hold blobs.  FileStorage never touches the disk.
StoreNames == {"azure", "peer", "s3"}

Registries == {"file", "az", "glfs", "s3"}

Namespaces == {"a"}

Names == {"a", ObjectObject}

Segments == Registries \cup Namespaces \cup Names

Keys == [registry : Registries, namespace : Namespaces, name : Names]

\* Physical addresses inside one backend.
Paths == {<<ns, n>> : ns \in Namespaces \cup Names, n \in Names}

\* ------------------------------------------------------------------------
\* Storage backends (storage.ts)
\* ------------------------------------------------------------------------

\* What one backend holds under one address: nothing, or the bytes with the
\* version metadata written next to them.
Absent == [kind |-> "absent"]

Blob(content, version) == [kind |-> "blob", content |-> content, version |-> version]

\* Path.normalize(`${namespace}/${name}${support ? `/${support}` : ''}.json`)
BlobPath(namespace, name, support) == <<namespace, name>> \o SupportPart(support)

\* A load that parses the body before it looks at the metadata.
GateAfterParse(blob) ==
    LET glfVersion == CoerceVersion(blob.version)
        config == RepoConfigParse(blob.content)
    IN IF ~config.ok THEN config
       ELSE IF glfVersion = Null THEN Throw("BadMetadata")
       ELSE IF SemverGt(glfVersion, resolveApiVersion) THEN Throw("VersionIncompatible")
       ELSE config

\* The version gate and the parse of a load, after the blob was fetched
\* (storage.ts 265-275, 360-369): the metadata is coerced and compared with
\* the server's version before the body is parsed.
GateAndParse(blob) ==
    LET glfVersion == CoerceVersion(blob.version)
    IN IF glfVersion = Null THEN Throw("BadMetadata")
       ELSE IF SemverGt(glfVersion, resolveApiVersion) THEN Throw("VersionIncompatible")
       ELSE RepoConfigParse(blob.content)

\* FileStorage: every operation throws.
FileConfigExists(st, namespace, name, support) == Throw("NotImplemented")

FileLoadConfig(st, namespace, name, support) == Throw("NotImplemented")

FileSaveConfig(st, config, namespace, name, support) == Throw("NotImplemented")

\* AzureBlobStorage.  blobClient.exists() raises on a transport failure.
AzureConfigExists(st, namespace, name, support, fault) ==
    IF fault THEN Throw("BackendUnavailable")
    ELSE Ok(st[BlobPath(namespace, name, support)] # Absent)

AzureLoadConfig(st, namespace, name, support, fault) ==
    LET blob == st[BlobPath(namespace, name, support)]
    IN IF fault THEN Throw("BackendUnavailable")
       ELSE IF blob = Absent THEN Throw("NotFound")
       ELSE GateAndParse(blob)

\* The upload carries no condition (no lease, no ETag): it replaces the blob.
AzureSaveConfig(st, config, namespace, name, support, fault) ==
    IF fault THEN Throw("BackendUnavailable")
    ELSE Ok([st EXCEPT ![BlobPath(namespace, name, support)] = Blob(JSONstringify(config), Tag(API_VERSION))])

\* S3Storage.  The HEAD probe turns every failure into false.
S3ConfigExists(st, namespace, name, support, fault) ==
    IF fault THEN Ok(FALSE)
    ELSE Ok(st[BlobPath(namespace, name, support)] # Absent)

S3LoadConfig(st, namespace, name, support, fault) ==
    LET blob == st[BlobPath(namespace, name, support)]
    IN IF fault THEN Throw("BackendUnavailable")
       ELSE IF blob = Absent THEN Throw("NotFound")
       ELSE GateAndParse(blob)

S3SaveConfig(st, config, namespace, name, support, fault) ==
    IF fault THEN Throw("BackendUnavailable")
    ELSE Ok([st EXCEPT ![BlobPath(namespace, name, support)] = Blob(JSONstringify(config), Tag(API_VERSION))])

\* GlfsStorage: the peer answers HEAD, GET and PUT on /v1/{namespace}/{name}
\* with an HTTP status.
PeerFailures == {400, 401, 500}

PeerStatuses == {200, 404, 412} \cup PeerFailures

\* Axios resolves the promise on a 2xx status and rejects it on any other
\* (the default validateStatus).
AxiosResolves(status) == status \in 200 .. 299

\* The rejected request: an AxiosError that carries the peer's status,
\* named here by the class of that status.
AxiosError(status) ==
    IF status = 404 THEN Throw("NotFound")
    ELSE IF status = 412 THEN Throw("PreconditionFailed")
    ELSE Throw("BackendUnavailable")

\* The peer's own answer.  The PUT carries no If-Match, so the peer accepts
\* it only for an address it holds nothing under.  A fault is an answer
\* other than 2xx, 404 and 412.
PeerAnswer(st, method, path, fault) ==
    IF fault THEN 500
    ELSE IF method = "PUT" THEN (IF st[path] # Absent THEN 412 ELSE 200)
    ELSE IF st[path] # Absent THEN 200 ELSE 404

\* Axios.head(...).then(() => true).catch(() => false)
GlfsHead(status) == Ok(AxiosResolves(status))

\* Axios.get(...) then RepoConfig.parse(response.data)
GlfsGet(status, data) == IF AxiosResolves(status) THEN RepoConfigParse(data) ELSE AxiosError(status)

\* await Axios.put(..., config.toHash(), ...)
GlfsPut(status) == IF AxiosResolves(status) THEN Ok(TRUE) ELSE AxiosError(status)

GlfsConfigExists(st, namespace, name, support, fault) ==
    GlfsHead(PeerAnswer(st, "HEAD", BlobPath(namespace, name, support), fault))

GlfsLoadConfig(st, namespace, name, support, fault) ==
    LET path == BlobPath(namespace, name, support)
    IN GlfsGet(PeerAnswer(st, "GET", path, fault), st[path].content)

\* config.toHash() is evaluated before the request is sent: a value that is
\* no document has no such method.  The request carries no version tag,
\* only the document with the apiVersion it declares.
GlfsSaveConfig(st, config, namespace, name, support, fault) ==
    LET path == BlobPath(namespace, name, support)
        res == GlfsPut(PeerAnswer(st, "PUT", path, fault))
    IN IF config.kind # "doc" THEN Throw("TypeError")
       ELSE IF ~res.ok THEN res
       ELSE Ok([st EXCEPT ![path] = Blob(JSONstringify(config), NoVersion)])

\* Dispatch on the class of the backend.
configExists(backend, st, namespace, name, support, fault) ==
    CASE backend.storageType = "file" -> FileConfigExists(st, namespace, name, support)
      [] backend.storageType = "azureBlobStorage" -> AzureConfigExists(st, namespace, name, support, fault)
      [] backend.storageType = "s3" -> S3ConfigExists(st, namespace, name, support, fault)
      [] backend.storageType = "glfs" -> GlfsConfigExists(st, namespace, name, support, fault)

loadConfig(backend, st, namespace, name, support, fault) ==
    CASE backend.storageType = "file" -> FileLoadConfig(st, namespace, name, support)
      [] backend.storageType = "azureBlobStorage" -> AzureLoadConfig(st, namespace, name, support, fault)
      [] backend.storageType = "s3" -> S3LoadConfig(st, namespace, name, support, fault)
      [] backend.storageType = "glfs" -> GlfsLoadConfig(st, namespace, name, support, fault)

saveConfig(backend, st, config, namespace, name, support, fault) ==
    CASE backend.storageType = "file" -> FileSaveConfig(st, config, namespace, name, support)
      [] backend.storageType = "azureBlobStorage" -> AzureSaveConfig(st, config, namespace, name, support, fault)
      [] backend.storageType = "s3" -> S3SaveConfig(st, config, namespace, name, support, fault)
      [] backend.storageType = "glfs" -> GlfsSaveConfig(st, config, namespace, name, support, fault)

\* deleteConfig throws in all four classes.
deleteConfig(backend, st, namespace, name, support) == Throw("NotImplemented")

\* ------------------------------------------------------------------------
\* Registry (registry.ts 28-47).  Each operation resolves the backend and
\* makes one call on it; `stores` maps a backend's name to what it holds.
\* ------------------------------------------------------------------------

StoreOf(stores, backend) == IF backend.name \in StoreNames THEN stores[backend.name] ELSE [p \in Paths |-> Absent]

repoConfigExists(stores, registry, namespace, name, support, fault) ==
    LET backend == getBackend(storageBackends, registry, namespace, name, support)
    IN IF ~backend.ok THEN backend
       ELSE configExists(backend.val, StoreOf(stores, backend.val), namespace, name, support, fault)

loadRepoConfig(stores, registry, namespace, name, support, fault) ==
    LET backend == getBackend(storageBackends, registry, namespace, name, support)
    IN IF ~backend.ok THEN backend
       ELSE loadConfig(backend.val, StoreOf(stores, backend.val), namespace, name, support, fault)

\* The result is the new content of all stores.
saveRepoConfig(stores, config, registry, namespace, name, support, fault) ==
    LET backend == getBackend(storageBackends, registry, namespace, name, support)
        res == saveConfig(backend.val, StoreOf(stores, backend.val), config, namespace, name, support, fault)
    IN IF ~backend.ok THEN backend
       ELSE IF ~res.ok THEN res
       ELSE Ok([stores EXCEPT ![backend.val.name] = res.val])

deleteRepoConfig(stores, registry, namespace, name, support) ==
    LET backend == getBackend(storageBackends, registry, namespace, name, support)
        res == deleteConfig(backend.val, StoreOf(stores, backend.val), namespace, name, support)
    IN IF ~backend.ok THEN backend
       ELSE IF ~res.ok THEN res
       ELSE Ok([stores EXCEPT ![backend.val.name] = res.val])

\* ------------------------------------------------------------------------
\* HTTP handlers (hapi.ts 90-198)
\* ------------------------------------------------------------------------

Clients == 1 .. NumClients

Ops == {"GET", "PUT", "DELETE"}

NoDoc == [kind |-> "none"]

NoKey == [registry |-> "", namespace |-> "", name |-> ""]

\* A request slot.  pc is the await the handler is suspended at; source is
\* the document loaded for the check; wrote tells whether the request's
\* backend write took effect; faulted whether a backend call of the request
\* met a transport failure; overlap whether another request was in flight
\* during this one; called the backend operations the request has invoked.
\* header is the glf-api-version header.  if-match, payload, the header and
\* the ensure flag are inputs of the request: they are drawn at the step
\* that first reads them.
IdleReq ==
    [pc |-> "idle", op |-> "none", key |-> NoKey, ensure |-> FALSE, ifMatch |-> NoToken,
     payload |-> Invalid, source |-> NoDoc, outcome |-> "none", body |-> NoDoc,
     wrote |-> FALSE, faulted |-> FALSE, overlap |-> FALSE, called |-> {},
     header |-> NoVersion]

Done(r, outcome) == [r EXCEPT !.pc = "done", !.outcome = outcome]

\* The glf-api-version header values a request can carry.
HeaderVersions == {NoVersion, NoDigits} \cup {Tag(v) : v \in Versions}

\* A pre-handler that lets every request through.
validateNothing(header) == Ok(TRUE)

\* validateVersion (hapi.ts 93-101): the coerced header must equal the
\* server's version.
validateVersion(header) ==
    LET reqApiVersion == CoerceVersion(header)
    IN IF reqApiVersion = Null THEN Throw("BadRequest")
       ELSE IF ~SemverEq(reqApiVersion, resolveApiVersion) THEN Throw("BadRequest")
       ELSE Ok(TRUE)

\* A hash check that lets a request without If-Match through.
HashCheckOptional(sourceConfigHash, ifMatch) == ifMatch # NoToken /\ sourceConfigHash # NoToken /\ sourceConfigHash # ifMatch

\* sourceConfigHash && sourceConfigHash !== req.headers['if-match']
\* (hapi.ts 150, 179); an undefined hash is NoToken.
HashCheckFailed(sourceConfigHash, ifMatch) == sourceConfigHash # NoToken /\ sourceConfigHash # ifMatch

\* sourceConfig?.calculateHash()
SourceHash(source) == IF source = NoDoc THEN NoToken ELSE calculateHash(source)

\* A GET handler that answers an absent key with a fresh document whether
\* or not it was asked to.
GetRespondAlwaysEnsure(r, config) ==
    IF config = NoDoc THEN [Done(r, "OK") EXCEPT !.body = createNew(1)]
    ELSE IF SemverGt(config.apiVersion, resolveApiVersion) THEN Done(r, "VersionIncompatible")
    ELSE [Done(r, "OK") EXCEPT !.body = config]

\* GET handler after the config was obtained (hapi.ts 126-131).
GetRespond(r, config) ==
    IF config = NoDoc THEN Done(r, "NotFound")
    ELSE IF SemverGt(config.apiVersion, resolveApiVersion) THEN Done(r, "VersionIncompatible")
    ELSE [Done(r, "OK") EXCEPT !.body = config]

\* A PUT handler that parses the payload before it compares the hashes.
PutParseFirst(r, source, ifMatch, payload) ==
    LET r1 == [r EXCEPT !.source = source, !.ifMatch = ifMatch, !.payload = payload]
        config == ParsePayload(payload)
    IN IF ~config.ok THEN Done(r1, config.err)
       ELSE IF HashCheckFailed(SourceHash(source), ifMatch) THEN Done(r1, "PreconditionFailed")
       ELSE IF calculateHash(config.val) # SourceHash(source) THEN [r1 EXCEPT !.pc = "save"]
       ELSE Done(r1, "OK")

\* PUT handler from the hash check to the call of saveRepoConfig
\* (hapi.ts 148-158).
PutAfterSource(r, source, ifMatch, payload) ==
    LET r1 == [r EXCEPT !.source = source, !.ifMatch = ifMatch, !.payload = payload]
        config == ParsePayload(payload)
    IN IF HashCheckFailed(SourceHash(source), ifMatch) THEN Done(r1, "PreconditionFailed")
       ELSE IF ~config.ok THEN Done(r1, config.err)
       ELSE IF calculateHash(config.val) # SourceHash(source) THEN [r1 EXCEPT !.pc = "save"]
       ELSE Done(r1, "OK")

\* A delete handler that goes on to the backend without the hash check.
DeleteWithoutCheck(r, source, ifMatch) == [r EXCEPT !.source = source, !.ifMatch = ifMatch, !.pc = "delete"]

\* DELETE handler from the hash check to the call of deleteRepoConfig
\* (hapi.ts 178-182).
DeleteAfterSource(r, source, ifMatch) ==
    LET r1 == [r EXCEPT !.source = source, !.ifMatch = ifMatch]
    IN IF HashCheckFailed(SourceHash(source), ifMatch) THEN Done(r1, "PreconditionFailed")
       ELSE [r1 EXCEPT !.pc = "delete"]

\* registry.saveRepoConfig(req.params.registry, req.params.namespace,
\* req.params.name, config) (hapi.ts 158) against the signature
\* saveRepoConfig(config, registry, namespace, name, support?)
\* (registry.ts 38): the arguments bind by position.  The parameter `name`
\* receives the document and is only used inside template strings.
PutSave(stores, key, config, fault) ==
    saveRepoConfig(stores, JsString(key.registry), key.namespace, key.name, TemplateString(config), NoSupport, fault)

\* ------------------------------------------------------------------------
\* State and actions
\* ------------------------------------------------------------------------

\* Blobs that other writers left in the stores before the server started.
SeedVersions == {NoVersion, Tag(API_VERSION), Tag(API_VERSION + 1)}

SeedDocs == {d \in Docs : d.id = 1}

SeedBlobs == {Blob(JSONstringify(d), v) : d \in SeedDocs, v \in SeedVersions}

SeedPath == <<"a", "a">>

EmptyStores == [b \in StoreNames |-> [p \in Paths |-> Absent]]

InitStores == {EmptyStores} \cup {[EmptyStores EXCEPT ![b][SeedPath] = blob] : b \in StoreNames, blob \in SeedBlobs}

\* No operation has been asked of the Registry directly yet.
NoCall == [op |-> "none"]

\* No resolution has been asked of the router yet.
NoRoute == [backends |-> <<>>, file |-> <<>>, resolved |-> Throw("none")]

\* ------------------------------------------------------------------------
\* The blob lease of the Azure service, as AzureBlobStorage.aquireConfig
\* uses it
\* ------------------------------------------------------------------------

\* No lease identifier: the backend has none configured, or a request
\* carries no lease condition.
NoLeaseId == <<"none", 0>>

\* The identifier configured for the backend (schema field leaseId).
ConfiguredLeaseId == <<"configured", 0>>

\* blobClient.getBlobLeaseClient(this.leaseId): the lease client proposes
\* the configured identifier, or a GUID of its own when there is none.
getBlobLeaseClient(configured, c) == IF configured = NoLeaseId THEN <<"uuid", c>> ELSE configured

\* Lease state of the blob at the key.
Available == [state |-> "available", id |-> NoLeaseId]

Leased(id) == [state |-> "leased", id |-> id]

\* leaseClient.acquireLease(-1): an infinite lease.  The service grants it
\* on an existing blob that is unleased, and again to a request proposing
\* the identifier of the active lease; any other identifier conflicts.
acquireLease(blob, ls, id) ==
    IF blob = Absent THEN Throw("BlobNotFound")
    ELSE IF ls.state = "leased" /\ ls.id # id THEN Throw("LeaseAlreadyPresent")
    ELSE Ok(Leased(id))

\* leaseClient.releaseLease(): frees the lease whose identifier matches.
releaseLease(ls, id) ==
    IF ls.state = "leased" /\ ls.id = id THEN Ok(Available)
    ELSE IF ls.state = "leased" THEN Throw("LeaseIdMismatch")
    ELSE Throw("LeaseNotPresent")

\* blobClient.downloadToBuffer(0, undefined, { conditions }): a read is
\* served without a lease condition; a lease condition must name the
\* active lease.
downloadToBuffer(blob, ls, cond, fault) ==
    IF fault THEN Throw("BackendUnavailable")
    ELSE IF blob = Absent THEN Throw("BlobNotFound")
    ELSE IF cond # NoLeaseId /\ ~(ls.state = "leased" /\ ls.id = cond) THEN Throw("LeaseLost")
    ELSE Ok(blob)

\* blobClient.upload(content, length, { conditions }): a write to a leased
\* blob must name the active lease; a write naming a lease to an unleased
\* blob is refused.
upload(ls, content, version, cond, fault) ==
    IF fault THEN Throw("BackendUnavailable")
    ELSE IF ls.state = "leased" /\ cond = NoLeaseId THEN Throw("LeaseIdMissing")
    ELSE IF ls.state = "leased" /\ cond # ls.id THEN Throw("LeaseIdMismatch")
    ELSE IF ls.state # "leased" /\ cond # NoLeaseId THEN Throw("LeaseNotPresent")
    ELSE Ok(Blob(content, version))

\* One caller of the lease model: an aquireConfig call in progress, or a
\* plain operation.
IdleAcq ==
    [pc |-> "idle", op |-> "none", leaseId |-> NoLeaseId, acquired |-> FALSE,
     config |-> NoDoc, updated |-> NoDoc, outcome |-> "none",
     conditions |-> NoLeaseId, leasedAt |-> Available, before |-> Absent]

\* ------------------------------------------------------------------------
\* FileStorage.resolveConfigPaths.  A path is the sequence of its segments.
\* ------------------------------------------------------------------------

MaxSegs == 2

\* One step of Path.normalize on a relative path: "." and empty segments
\* vanish, ".." removes the segment before it, and stays when there is none
\* to remove.
NormalizeStep(acc, seg) ==
    IF seg = "." \/ seg = "" THEN acc
    ELSE IF seg = ".." /\ acc # <<>> /\ acc[Len(acc)] # ".." THEN SubSeq(acc, 1, Len(acc) - 1)
    ELSE Append(acc, seg)

RECURSIVE NormalizeFrom(_, _)
NormalizeFrom(acc, segs) == IF segs = <<>> THEN acc ELSE NormalizeFrom(NormalizeStep(acc, Head(segs)), Tail(segs))

\* Path.normalize(path)
PathNormalize(segs) == NormalizeFrom(<<>>, segs)

RECURSIVE StripLeadingDotDots(_)
\* .replace(/^(\.\.(\/|\\|$))+/, ''): the leading ".." segments are cut off.
StripLeadingDotDots(segs) == IF segs # <<>> /\ Head(segs) = ".." THEN StripLeadingDotDots(Tail(segs)) ELSE segs

\* The working directory of the server process.
Cwd == <<"app">>

\* Path.resolve('.gitflow', relative): relative holds no ".." any more.
PathResolve(base, relative) == Cwd \o base \o relative

\* `configs/${namespace}/${name}${support ? `/${support}` : ''}/${file}`
ConfigFile(namespace, name, support, file) == <<"configs">> \o namespace \o name \o SupportPart(support) \o <<file>>

\* FileStorage.resolveConfigPaths: the config path and the lock path.
resolveConfigPaths(namespace, name, support) ==
    << PathResolve(<<".gitflow">>, StripLeadingDotDots(PathNormalize(ConfigFile(namespace, name, support, "gitflow.yml")))),
       PathResolve(<<".gitflow">>, StripLeadingDotDots(PathNormalize(ConfigFile(namespace, name, support, "gitflow.yml.lock")))) >>

\* No path has been resolved.
NoPaths == [reposPath |-> <<>>, namespace |-> <<>>, name |-> <<>>, support |-> <<>>, paths |-> <<>>]

\* ------------------------------------------------------------------------
\* The files of FileStorage.aquireConfig: the config file and its lock file
\* ------------------------------------------------------------------------

\* Yaml.dump(config): the text of the config file.
YamlDump(v) == IF v.kind = "doc" THEN [yaml |-> "map", id |-> v.id, apiVersion |-> v.apiVersion] ELSE [yaml |-> "scalar", s |-> v.s]

\* Yaml.load(content) then RepoConfig.parse(hash)
YamlLoadParse(content) ==
    IF content.yaml = "map" THEN Ok([kind |-> "doc", id |-> content.id, apiVersion |-> content.apiVersion])
    ELSE Throw("Corrupt")

\* No config file at configPath.
NoFile == [yaml |-> "none"]

\* The directory of one key: no config file, no lock file.
EmptyDisk == [config |-> NoFile, lock |-> FALSE]

Init ==
    /\ store \in InitStores
    /\ req = [c \in Clients |-> IdleReq]
    /\ pre = store
    /\ started = 0
    /\ route = NoRoute
    /\ reg = NoCall
    /\ lease = Available
    /\ acq = [c \in Clients |-> IdleAcq]
    /\ leaseId = NoLeaseId
    /\ files = NoPaths
    /\ hist = <<>>
    /\ disk = EmptyDisk

InFlight(r) == r.pc \notin {"idle", "done"}

\* The backend operation `op` was invoked unless the resolution failed.
Called(r, op, res) == IF ~res.ok /\ res.err = "NoBackendMatched" THEN r.called ELSE r.called \cup {op}

\* A request arrives.
Start(c) ==
    /\ req[c].pc \in {"idle", "done"}
    /\ started < MaxRequests
    /\ \E op \in Ops, key \in Keys :
         LET busy == \E d \in Clients \ {c} : InFlight(req[d])
         IN req' = [d \in Clients |->
                      IF d = c THEN [IdleReq EXCEPT !.pc = "validate", !.op = op, !.key = key, !.overlap = busy]
                      ELSE IF InFlight(req[d]) THEN [req[d] EXCEPT !.overlap = TRUE]
                      ELSE req[d]]
    /\ pre' = store
    /\ started' = started + 1
    /\ UNCHANGED <<store, route, reg, lease, acq, leaseId, files, hist, disk>>

\* The route's pre-handler: validateVersion on the request's header.
Validate(c) ==
    /\ req[c].pc = "validate"
    /\ \E header \in HeaderVersions :
         LET v == validateVersion(header)
         IN req' = [req EXCEPT ![c] = IF v.ok THEN [@ EXCEPT !.pc = "exists", !.header = header]
                                       ELSE Done([@ EXCEPT !.header = header], v.err)]
    /\ UNCHANGED <<store, pre, started, route, reg, lease, acq, leaseId, files, hist, disk>>

\* An existence step whose ensure branch stores the fresh document.
ExistsPersisting(c) ==
    /\ req[c].pc = "exists"
    /\ \E fault \in BOOLEAN :
         LET k == req[c].key
             res == repoConfigExists(store, k.registry, k.namespace, k.name, NoSupport, fault)
             r == [req[c] EXCEPT !.faulted = @ \/ fault, !.called = Called(req[c], "exists", res)]
         IN IF ~res.ok THEN req' = [req EXCEPT ![c] = Done(r, res.err)]
            ELSE IF res.val THEN req' = [req EXCEPT ![c] = [r EXCEPT !.pc = "load"]]
            ELSE CASE r.op = "GET" ->
                        \E ensure \in BOOLEAN, id \in 1 .. MaxDocId :
                            req' = [req EXCEPT ![c] = GetRespond([r EXCEPT !.ensure = ensure], IF ensure THEN createNew(id) ELSE NoDoc)]
                   [] r.op = "PUT" ->
                        \E ifMatch \in Tokens, payload \in Docs \cup {Invalid} :
                            req' = [req EXCEPT ![c] = PutAfterSource(r, NoDoc, ifMatch, payload)]
                   [] r.op = "DELETE" ->
                        \E ifMatch \in Tokens :
                            req' = [req EXCEPT ![c] = Done([r EXCEPT !.ifMatch = ifMatch], "NotFound")]
    /\ LET k == req[c].key
           saved == saveRepoConfig(store, req'[c].body, k.registry, k.namespace, k.name, NoSupport, FALSE)
       IN store' = IF req'[c].op = "GET" /\ req'[c].ensure /\ req'[c].outcome = "OK" /\ saved.ok THEN saved.val ELSE store
    /\ UNCHANGED <<pre, started, route, reg, lease, acq, leaseId, files, hist, disk>>

\* await registry.repoConfigExists(...) and what follows it without await.
Exists(c) ==
    /\ req[c].pc = "exists"
    /\ \E fault \in BOOLEAN :
         LET k == req[c].key
             res == repoConfigExists(store, k.registry, k.namespace, k.name, NoSupport, fault)
             r == [req[c] EXCEPT !.faulted = @ \/ fault, !.called = Called(req[c], "exists", res)]
         IN IF ~res.ok THEN req' = [req EXCEPT ![c] = Done(r, res.err)]
            ELSE IF res.val THEN req' = [req EXCEPT ![c] = [r EXCEPT !.pc = "load"]]
            ELSE CASE r.op = "GET" ->
                        \E ensure \in BOOLEAN, id \in 1 .. MaxDocId :
                            req' = [req EXCEPT ![c] = GetRespond([r EXCEPT !.ensure = ensure], IF ensure THEN createNew(id) ELSE NoDoc)]
                   [] r.op = "PUT" ->
                        \E ifMatch \in Tokens, payload \in Docs \cup {Invalid} :
                            req' = [req EXCEPT ![c] = PutAfterSource(r, NoDoc, ifMatch, payload)]
                   [] r.op = "DELETE" ->
                        \E ifMatch \in Tokens :
                            req' = [req EXCEPT ![c] = Done([r EXCEPT !.ifMatch = ifMatch], "NotFound")]
    /\ UNCHANGED <<store, pre, started, route, reg, lease, acq, leaseId, files, hist, disk>>

\* await registry.loadRepoConfig(...) and what follows it without await.
Load(c) ==
    /\ req[c].pc = "load"
    /\ \E fault \in BOOLEAN :
         LET k == req[c].key
             res == loadRepoConfig(store, k.registry, k.namespace, k.name, NoSupport, fault)
             r == [req[c] EXCEPT !.faulted = @ \/ fault, !.called = Called(req[c], "load", res)]
         IN IF ~res.ok THEN req' = [req EXCEPT ![c] = Done(r, res.err)]
            ELSE CASE r.op = "GET" ->
                        \E ensure \in BOOLEAN :
                            req' = [req EXCEPT ![c] = GetRespond([r EXCEPT !.ensure = ensure, !.source = res.val], res.val)]
                   [] r.op = "PUT" ->
                        \E ifMatch \in Tokens, payload \in Docs \cup {Invalid} :
                            req' = [req EXCEPT ![c] = PutAfterSource(r, res.val, ifMatch, payload)]
                   [] r.op = "DELETE" ->
                        \E ifMatch \in Tokens :
                            req' = [req EXCEPT ![c] = DeleteAfterSource(r, res.val, ifMatch)]
    /\ UNCHANGED <<store, pre, started, route, reg, lease, acq, leaseId, files, hist, disk>>

\* A save whose upload reached the backend and is then reported as failed.
SaveUploadThenFail(c) ==
    /\ req[c].pc = "save"
    /\ \E fault \in BOOLEAN :
         LET res == PutSave(store, req[c].key, req[c].payload, FALSE)
             r == [req[c] EXCEPT !.faulted = @ \/ fault, !.called = Called(req[c], "save", res)]
         IN IF res.ok
            THEN /\ store' = res.val
                 /\ req' = [req EXCEPT ![c] = IF fault THEN Done(r, "BackendUnavailable") ELSE [Done(r, "OK") EXCEPT !.wrote = TRUE]]
            ELSE /\ store' = store
                 /\ req' = [req EXCEPT ![c] = Done(r, res.err)]
    /\ UNCHANGED <<pre, started, route, reg, lease, acq, leaseId, files, hist, disk>>

\* await registry.saveRepoConfig(...); return h.response().
Save(c) ==
    /\ req[c].pc = "save"
    /\ \E fault \in BOOLEAN :
         LET res == PutSave(store, req[c].key, req[c].payload, fault)
             r == [req[c] EXCEPT !.faulted = @ \/ fault, !.called = Called(req[c], "save", res)]
         IN IF res.ok
            THEN /\ store' = res.val
                 /\ req' = [req EXCEPT ![c] = [Done(r, "OK") EXCEPT !.wrote = TRUE]]
            ELSE /\ store' = store
                 /\ req' = [req EXCEPT ![c] = Done(r, res.err)]
    /\ UNCHANGED <<pre, started, route, reg, lease, acq, leaseId, files, hist, disk>>

\* await registry.deleteRepoConfig(...); return h.response().
Delete(c) ==
    /\ req[c].pc = "delete"
    /\ LET k == req[c].key
           res == deleteRepoConfig(store, k.registry, k.namespace, k.name, NoSupport)
           r == [req[c] EXCEPT !.called = Called(req[c], "delete", res)]
       IN IF res.ok
          THEN /\ store' = res.val
               /\ req' = [req EXCEPT ![c] = [Done(r, "OK") EXCEPT !.wrote = TRUE]]
          ELSE /\ store' = store
               /\ req' = [req EXCEPT ![c] = Done(r, res.err)]
    /\ UNCHANGED <<pre, started, route, reg, lease, acq, leaseId, files, hist, disk>>

\* One request at a time.
NextSeq == Start(1) \/ Validate(1) \/ Exists(1) \/ Load(1) \/ Save(1) \/ Delete(1)

SpecSeq == Init /\ [][NextSeq]_vars

\* Two save requests on one key that may hold a document: the second may
\* arrive while the first is suspended at an await.
StartSave(c) ==
    /\ Start(c)
    /\ req'[c].op = "PUT"
    /\ <<req'[c].key.namespace, req'[c].key.name>> = SeedPath
    /\ \A d \in Clients \ {c} : req[d].pc = "idle" \/ req[d].key = req'[c].key

NextRace == \E c \in Clients : StartSave(c) \/ Validate(c) \/ Exists(c) \/ Load(c) \/ Save(c)

\* The race is run on stores that hold one loadable document.
InitRace == Init /\ \E b \in StoreNames : store[b][SeedPath] # Absent /\ store[b][SeedPath].version = Tag(API_VERSION)

SpecRace == InitRace /\ [][NextRace]_vars

\* ------------------------------------------------------------------------
\* Routing on its own: getBackend asked about any key against any table
\* ------------------------------------------------------------------------

\* Longest route table.
MaxBackends == 3

\* Pattern lists a backend can be configured with.
PatternLists ==
    { <<>>,
      << <<"**">> >>,
      << <<"az", "**">> >>,
      << <<"glfs", "*", "*">> >>,
      << <<"file", "**">>, <<"az", "*", "a">> >>,
      << <<"az", "a", DotName>> >> }

\* The optional `patterns` field of a backend's schema
\* (Zod.string().array().optional()): <<>> is a missing field, <<l>> the
\* list l.
NoPatterns == <<>>

SomePatterns(l) == <<l>>

SchemaPatterns == {NoPatterns} \cup {SomePatterns(l) : l \in PatternLists}

\* value.patterns?.slice() ?? [ '**' ]
fromSchema(patterns) == IF patterns = NoPatterns THEN << <<"**">> >> ELSE patterns[1]

\* Keys whose name may begin with a period.
RouteKeys == [registry : Registries, namespace : Namespaces, name : Names \cup {DotName}]

Supports == {NoSupport, <<"">>, <<"hotfix">>}

\* The descriptor declared at position i of a table.
Descriptor(i, patterns) ==
    [name |-> <<"backend", i>>, storageType |-> "s3", patterns |-> fromSchema(patterns), configured |-> patterns]

TablesOfLen(n) == {[i \in 1 .. n |-> Descriptor(i, f[i])] : f \in [1 .. n -> SchemaPatterns]}

RouteTables == UNION {TablesOfLen(n) : n \in 0 .. MaxBackends}

\* One call of getBackend.  The table is fixed when the Registry is
\* constructed, by the first call here, and is the same for every later call.
Resolve ==
    /\ \E backends \in (IF route = NoRoute THEN RouteTables ELSE {route.backends}), key \in RouteKeys, support \in Supports :
         /\ route' = [backends |-> backends,
                   file |-> Flatten(key.registry, key.namespace, key.name, support),
                   resolved |-> getBackend(backends, key.registry, key.namespace, key.name, support)]
    /\ UNCHANGED <<store, req, pre, started, reg, lease, acq, leaseId, files, hist, disk>>

NextRoute == Resolve

InitRoute == Init /\ store = EmptyStores

SpecRoute == InitRoute /\ [][NextRoute]_vars

\* ------------------------------------------------------------------------
\* The Registry called directly (registry.ts 28-47): one operation on any
\* key, against a route table that need not have a catch-all
\* ------------------------------------------------------------------------

\* Route tables made of the configured backends, in declaration order.
SubTables ==
    { <<>>,
      <<storageBackends[1]>>,
      <<storageBackends[2], storageBackends[3]>>,
      <<storageBackends[1], storageBackends[2], storageBackends[3]>>,
      <<storageBackends[4]>>,
      storageBackends }

RegistryOps == {"exists", "load", "save", "delete"}

\* The backend's operation that a Registry operation delegates to.
BackendCall(backend, st, op, config, namespace, name, support, fault) ==
    CASE op = "exists" -> configExists(backend, st, namespace, name, support, fault)
      [] op = "load" -> loadConfig(backend, st, namespace, name, support, fault)
      [] op = "save" -> saveConfig(backend, st, config, namespace, name, support, fault)
      [] op = "delete" -> deleteConfig(backend, st, namespace, name, support)

\* A Registry operation that calls the backend a second time when the
\* first call failed.
RegistryOpRetrying(backends, stores, op, config, registry, namespace, name, support, fault) ==
    LET backend == getBackend(backends, registry, namespace, name, support)
        first == BackendCall(backend.val, StoreOf(stores, backend.val), op, config, namespace, name, support, fault)
        res == IF first.ok THEN first ELSE BackendCall(backend.val, StoreOf(stores, backend.val), op, config, namespace, name, support, FALSE)
        call == [backend |-> backend.val.name, op |-> op]
        wrote == op \in {"save", "delete"} /\ res.ok
    IN IF ~backend.ok
       THEN [out |-> backend, calls |-> <<>>, after |-> stores]
       ELSE [out |-> IF wrote THEN Ok(TRUE) ELSE res,
             calls |-> IF first.ok THEN <<call>> ELSE <<call, call>>,
             after |-> IF wrote THEN [stores EXCEPT ![backend.val.name] = res.val] ELSE stores]

\* One Registry operation: getBackend, then one call on the backend it
\* returned.  out is what the operation returns or throws, calls the backend
\* calls it made, after what the stores hold when it has ended.
RegistryOp(backends, stores, op, config, registry, namespace, name, support, fault) ==
    LET backend == getBackend(backends, registry, namespace, name, support)
        res == BackendCall(backend.val, StoreOf(stores, backend.val), op, config, namespace, name, support, fault)
        wrote == op \in {"save", "delete"} /\ res.ok
    IN IF ~backend.ok
       THEN [out |-> backend, calls |-> <<>>, after |-> stores]
       ELSE [out |-> IF wrote THEN Ok(TRUE) ELSE res,
             calls |-> << [backend |-> backend.val.name, op |-> op] >>,
             after |-> IF wrote THEN [stores EXCEPT ![backend.val.name] = res.val] ELSE stores]

\* A caller invokes one operation of the Registry on the stores as they
\* were found.
RegistryCall ==
    /\ reg = NoCall
    /\ \E backends \in SubTables, op \in RegistryOps, key \in Keys, fault \in BOOLEAN :
         \E config \in IF op = "save" THEN Docs ELSE {NoDoc} :
             LET r == RegistryOp(backends, store, op, config, key.registry, key.namespace, key.name, NoSupport, fault)
             IN /\ reg' = [op |-> op, backends |-> backends, key |-> key, fault |-> fault,
                           config |-> config, out |-> r.out, calls |-> r.calls, before |-> store]
                /\ store' = r.after
    /\ UNCHANGED <<req, pre, started, route, lease, acq, leaseId, files, hist, disk>>

NextRegistry == RegistryCall

\* Blobs and objects written by something other than saveConfig: metadata
\* in which no version is found, and bodies that are not a document.
ForeignBlobs ==
    {Blob(JSONstringify(d), NoDigits) : d \in SeedDocs}
        \cup {Blob(JSONstringify(JsString(ObjectObject)), v) : v \in {NoVersion, NoDigits}}

ForeignStores == {[EmptyStores EXCEPT ![b][SeedPath] = blob] : b \in {"azure", "s3"}, blob \in ForeignBlobs}

InitRegistry ==
    /\ store \in InitStores \cup ForeignStores
    /\ req = [c \in Clients |-> IdleReq]
    /\ pre = store
    /\ started = 0
    /\ route = NoRoute
    /\ reg = NoCall
    /\ lease = Available
    /\ acq = [c \in Clients |-> IdleAcq]
    /\ leaseId = NoLeaseId
    /\ files = NoPaths
    /\ hist = <<>>
    /\ disk = EmptyDisk

SpecRegistry == InitRegistry /\ [][NextRegistry]_vars

\* ------------------------------------------------------------------------
\* GlfsStorage against a peer that may answer any status
\* ------------------------------------------------------------------------

PeerStore == "peer"

PeerMethod(op) == IF op = "exists" THEN "HEAD" ELSE IF op = "load" THEN "GET" ELSE "PUT"

\* One operation of the GlfsStorage backend; the peer gives its own answer
\* or one of the failure statuses.
GlfsCall(st, op, config, path, status) ==
    CASE op = "exists" -> GlfsHead(status)
      [] op = "load" -> GlfsGet(status, st[path].content)
      [] op = "save" -> IF GlfsPut(status).ok
                        THEN Ok([st EXCEPT ![path] = Blob(JSONstringify(config), NoVersion)])
                        ELSE GlfsPut(status)

PeerCall ==
    /\ reg = NoCall
    /\ \E op \in {"exists", "load", "save"}, path \in Paths :
       \E status \in {PeerAnswer(store[PeerStore], PeerMethod(op), path, FALSE)} \cup PeerFailures :
       \E config \in IF op = "save" THEN Docs ELSE {NoDoc} :
           LET res == GlfsCall(store[PeerStore], op, config, path, status)
               wrote == op = "save" /\ res.ok
           IN /\ reg' = [op |-> op, backends |-> <<storageBackends[3]>>,
                         key |-> [registry |-> "glfs", namespace |-> path[1], name |-> path[2]],
                         fault |-> status \in PeerFailures, config |-> config,
                         out |-> IF wrote THEN Ok(TRUE) ELSE res,
                         calls |-> << [backend |-> PeerStore, op |-> op] >>,
                         before |-> store, status |-> status]
              /\ store' = IF wrote THEN [store EXCEPT ![PeerStore] = res.val] ELSE store
    /\ UNCHANGED <<req, pre, started, route, lease, acq, leaseId, files, hist, disk>>

NextPeer == PeerCall

SpecPeer == Init /\ [][NextPeer]_vars

\* ------------------------------------------------------------------------
\* FileStorage path resolution on keys whose segments may hold "." and ".."
\* ------------------------------------------------------------------------

PathSegments == {"a", ".", ".."}

\* A namespace or a name: one segment, or several joined by separators.
SegmentLists == UNION {[1 .. n -> PathSegments] : n \in 1 .. MaxSegs}

PathSupports == {NoSupport, <<"">>, <<"s">>, <<"..">>}

\* reposPath of the store's configuration: the default '.', or a directory
\* elsewhere.
ReposPaths == {Cwd, <<"srv", "repos">>}

ResolvePaths ==
    /\ files = NoPaths
    /\ \E reposPath \in ReposPaths, namespace \in SegmentLists, name \in SegmentLists, support \in PathSupports :
           files' = [reposPath |-> reposPath, namespace |-> namespace, name |-> name, support |-> support,
                     paths |-> resolveConfigPaths(namespace, name, support)]
    /\ UNCHANGED <<store, req, pre, started, route, reg, lease, acq, leaseId, hist, disk>>

NextPaths == ResolvePaths

InitPaths == Init /\ store = EmptyStores

SpecPaths == InitPaths /\ [][NextPaths]_vars

\* ------------------------------------------------------------------------
\* The routing string and the physical address of a key with a support
\* qualifier
\* ------------------------------------------------------------------------

KeySupports == Supports \cup {<<"s">>}

\* One Registry call on a four-part key: getBackend flattens the key, the
\* resolved backend derives its address.
ResolveAddress ==
    /\ route = NoRoute
    /\ \E backends \in SubTables, key \in Keys, support \in KeySupports :
           route' = [backends |-> backends, key |-> key, support |-> support,
                     file |-> Flatten(key.registry, key.namespace, key.name, support),
                     resolved |-> getBackend(backends, key.registry, key.namespace, key.name, support),
                     address |-> BlobPath(key.namespace, key.name, support)]
    /\ UNCHANGED <<store, req, pre, started, reg, lease, acq, leaseId, files, hist, disk>>

NextAddress == ResolveAddress

SpecAddress == InitRoute /\ [][NextAddress]_vars

\* ------------------------------------------------------------------------
\* Registry operations with subscribers of onResolvedBackend
\* ------------------------------------------------------------------------

MaxSubscribers == 2

\* What a subscribed handler does when it is called: return, raise, or
\* never return.
SubscriberKinds == {"returns", "throws", "blocks"}

SubscriberLists == UNION {[1 .. n -> SubscriberKinds] : n \in 0 .. MaxSubscribers}

\* this.#resolvedBackendDispatcher.dispatch(...): the handlers are called
\* one after the other on the caller's stack; the call ends with the first
\* handler that does not return.
dispatch(subscribers) ==
    LET stops == {i \in 1 .. Len(subscribers) : subscribers[i] # "returns"}
        first == CHOOSE i \in stops : \A k \in stops : i <= k
    IN IF stops = {} THEN Ok(Len(subscribers))
       ELSE IF subscribers[first] = "throws" THEN Throw("SubscriberError")
       ELSE Throw("NeverReturns")

\* Registry.getBackend with its notification: find, throw when nothing
\* matched, dispatch, return.
getBackendNotifying(subscribers, backends, registry, namespace, name, support) ==
    LET backend == getBackend(backends, registry, namespace, name, support)
        sent == dispatch(subscribers)
    IN IF ~backend.ok THEN backend
       ELSE IF ~sent.ok THEN sent
       ELSE backend

NotifiedCall ==
    /\ reg = NoCall
    /\ \E subscribers \in SubscriberLists, backends \in SubTables, op \in RegistryOps, key \in Keys :
       \E config \in IF op = "save" THEN Docs ELSE {NoDoc} :
           LET resolved == getBackendNotifying(subscribers, backends, key.registry, key.namespace, key.name, NoSupport)
               r == IF resolved.ok
                    THEN RegistryOp(backends, store, op, config, key.registry, key.namespace, key.name, NoSupport, FALSE)
                    ELSE [out |-> resolved, calls |-> <<>>, after |-> store]
           IN /\ reg' = [op |-> op, backends |-> backends, key |-> key, fault |-> FALSE, config |-> config,
                         out |-> r.out, calls |-> r.calls, before |-> store, subscribers |-> subscribers]
              /\ store' = r.after
    /\ UNCHANGED <<req, pre, started, route, lease, acq, leaseId, files, hist, disk>>

NextNotify == NotifiedCall

SpecNotify == Init /\ [][NextNotify]_vars

\* ------------------------------------------------------------------------
\* AzureBlobStorage.aquireConfig and plain operations on one leased key
\* ------------------------------------------------------------------------

LeaseStore == "azure"

\* The blob at the key all callers address.
LeaseBlob == store[LeaseStore][SeedPath]

EndAcq(a, outcome) == [a EXCEPT !.pc = "done", !.outcome = outcome]

\* const leaseResponse = await leaseClient.acquireLease(-1)
Acquire(c) ==
    /\ acq[c].pc = "idle"
    /\ LET id == getBlobLeaseClient(leaseId, c)
           r == acquireLease(LeaseBlob, lease, id)
           a == [acq[c] EXCEPT !.op = "aquire", !.leaseId = id, !.leasedAt = lease, !.before = LeaseBlob]
       IN IF r.ok
          THEN /\ lease' = r.val
               /\ acq' = [acq EXCEPT ![c] = [a EXCEPT !.pc = "download", !.acquired = TRUE]]
          ELSE /\ lease' = lease
               /\ acq' = [acq EXCEPT ![c] = EndAcq(a, r.err)]
    /\ UNCHANGED <<store, req, pre, started, route, reg, leaseId, files, hist, disk>>

\* downloadToBuffer under the lease, then RepoConfig.parse; a failure of
\* either leaves the function.
Download(c) ==
    /\ acq[c].pc = "download"
    /\ \E fault \in BOOLEAN :
           LET r == downloadToBuffer(LeaseBlob, lease, acq[c].leaseId, fault)
               parsed == RepoConfigParse(r.val.content)
               a == [acq[c] EXCEPT !.conditions = acq[c].leaseId]
           IN acq' = [acq EXCEPT ![c] =
                         IF ~r.ok THEN EndAcq(a, r.err)
                         ELSE IF ~parsed.ok THEN EndAcq(a, parsed.err)
                         ELSE [a EXCEPT !.pc = "cb", !.config = parsed.val]]
    /\ UNCHANGED <<store, req, pre, started, route, reg, lease, leaseId, files, hist, disk>>

\* Documents a caller writes: at the server's version.
Replacements == {d \in Docs : d.apiVersion = API_VERSION}

\* What the caller's callback does: raise, return nothing, or return an
\* updated document.
CallbackResults == {JsString("throw"), JsString("void")} \cup Replacements

\* const updatedConfig = await cb(config); if (updatedConfig) ...
Transform(c) ==
    /\ acq[c].pc = "cb"
    /\ \E result \in CallbackResults :
           acq' = [acq EXCEPT ![c] =
                      IF result = JsString("throw") THEN EndAcq(acq[c], "TransformError")
                      ELSE IF result = JsString("void") THEN [acq[c] EXCEPT !.pc = "release"]
                      ELSE [acq[c] EXCEPT !.pc = "upload", !.updated = result]]
    /\ UNCHANGED <<store, req, pre, started, route, reg, lease, leaseId, files, hist, disk>>

\* An upload that writes back the document that was downloaded.
UploadLoaded(c) ==
    /\ acq[c].pc = "upload"
    /\ \E fault \in BOOLEAN :
           LET r == upload(lease, JSONstringify(acq[c].config), NoVersion, acq[c].leaseId, fault)
           IN IF r.ok
              THEN /\ store' = [store EXCEPT ![LeaseStore][SeedPath] = r.val]
                   /\ acq' = [acq EXCEPT ![c].pc = "release"]
              ELSE /\ store' = store
                   /\ acq' = [acq EXCEPT ![c] = EndAcq(acq[c], r.err)]
    /\ UNCHANGED <<req, pre, started, route, reg, lease, leaseId, files, hist, disk>>

\* blobClient.upload(content, ..., { conditions: { leaseId } }) without
\* metadata.
Upload(c) ==
    /\ acq[c].pc = "upload"
    /\ \E fault \in BOOLEAN :
           LET r == upload(lease, JSONstringify(acq[c].updated), NoVersion, acq[c].leaseId, fault)
           IN IF r.ok
              THEN /\ store' = [store EXCEPT ![LeaseStore][SeedPath] = r.val]
                   /\ acq' = [acq EXCEPT ![c].pc = "release"]
              ELSE /\ store' = store
                   /\ acq' = [acq EXCEPT ![c] = EndAcq(acq[c], r.err)]
    /\ UNCHANGED <<req, pre, started, route, reg, lease, leaseId, files, hist, disk>>

\* await leaseClient.releaseLease(): the last statement of the function.
Release(c) ==
    /\ acq[c].pc = "release"
    /\ LET r == releaseLease(lease, acq[c].leaseId)
       IN IF r.ok
          THEN /\ lease' = r.val
               /\ acq' = [acq EXCEPT ![c] = EndAcq(acq[c], "OK")]
          ELSE /\ lease' = lease
               /\ acq' = [acq EXCEPT ![c] = EndAcq(acq[c], r.err)]
    /\ UNCHANGED <<store, req, pre, started, route, reg, leaseId, files, hist, disk>>

\* A plain operation records the lease it met and the blob it found.
PlainAcq(a, op) == [a EXCEPT !.op = op, !.leasedAt = lease, !.before = LeaseBlob, !.conditions = NoLeaseId]

\* AzureBlobStorage.saveConfig: the upload options hold metadata and
\* content type, no conditions.
PlainSave(c) ==
    /\ acq[c].pc = "idle"
    /\ \E config \in Replacements, fault \in BOOLEAN :
           LET a == PlainAcq(acq[c], "save")
               r == upload(lease, JSONstringify(config), Tag(API_VERSION), a.conditions, fault)
           IN IF r.ok
              THEN /\ store' = [store EXCEPT ![LeaseStore][SeedPath] = r.val]
                   /\ acq' = [acq EXCEPT ![c] = EndAcq([a EXCEPT !.updated = config], "OK")]
              ELSE /\ store' = store
                   /\ acq' = [acq EXCEPT ![c] = EndAcq([a EXCEPT !.updated = config], r.err)]
    /\ UNCHANGED <<req, pre, started, route, reg, lease, leaseId, files, hist, disk>>

\* AzureBlobStorage.loadConfig: properties, version gate, download without
\* conditions, parse.
PlainLoad(c) ==
    /\ acq[c].pc = "idle"
    /\ \E fault \in BOOLEAN :
           LET a == PlainAcq(acq[c], "load")
               r == downloadToBuffer(LeaseBlob, lease, a.conditions, fault)
               parsed == GateAndParse(r.val)
           IN acq' = [acq EXCEPT ![c] =
                         IF ~r.ok THEN EndAcq(a, r.err)
                         ELSE IF ~parsed.ok THEN EndAcq(a, parsed.err)
                         ELSE EndAcq([a EXCEPT !.config = parsed.val], "OK")]
    /\ UNCHANGED <<store, req, pre, started, route, reg, lease, leaseId, files, hist, disk>>

\* AzureBlobStorage.deleteConfig throws before any request is made.
PlainDelete(c) ==
    /\ acq[c].pc = "idle"
    /\ LET r == deleteConfig(storageBackends[2], store[LeaseStore], SeedPath[1], SeedPath[2], NoSupport)
       IN /\ acq' = [acq EXCEPT ![c] = EndAcq(PlainAcq(acq[c], "delete"), IF r.ok THEN "OK" ELSE r.err)]
          /\ store' = IF r.ok THEN [store EXCEPT ![LeaseStore] = r.val] ELSE store
    /\ UNCHANGED <<req, pre, started, route, reg, lease, leaseId, files, hist, disk>>

NextLease ==
    \E c \in Clients :
        \/ Acquire(c)
        \/ Download(c)
        \/ Transform(c)
        \/ Upload(c)
        \/ Release(c)
        \/ PlainSave(c)
        \/ PlainLoad(c)
        \/ PlainDelete(c)

\* A blob whose content is not a document.
CorruptBlob == Blob(JSONstringify(JsString(ObjectObject)), NoVersion)

LeaseBlobs == {Absent, CorruptBlob} \cup {b \in SeedBlobs : b.version # NoVersion /\ (b.version = Tag(API_VERSION) \/ b.content.apiVersion = API_VERSION)}

InitLease ==
    /\ store \in {[EmptyStores EXCEPT ![LeaseStore][SeedPath] = blob] : blob \in LeaseBlobs}
    /\ req = [c \in Clients |-> IdleReq]
    /\ pre = store
    /\ started = 0
    /\ route = NoRoute
    /\ reg = NoCall
    /\ lease = Available
    /\ acq = [c \in Clients |-> IdleAcq]
    /\ leaseId \in {NoLeaseId, ConfiguredLeaseId}
    /\ files = NoPaths
    /\ hist = <<>>
    /\ disk = EmptyDisk

SpecLease == InitLease /\ [][NextLease]_vars

\* ------------------------------------------------------------------------
\* FileStorage.aquireConfig: concurrent calls on one key
\* ------------------------------------------------------------------------

\* if (!await FS.pathExists(configPath)) throw ...
PathExists(c) ==
    /\ acq[c].pc = "idle"
    /\ acq' = [acq EXCEPT ![c] =
                  IF disk.config = NoFile THEN EndAcq([@ EXCEPT !.op = "aquireFile"], "ConfigDoesNotExist")
                  ELSE [@ EXCEPT !.op = "aquireFile", !.pc = "ensureFile"]]
    /\ UNCHANGED <<store, req, pre, started, route, reg, lease, leaseId, files, hist, disk>>

\* await FS.ensureFile(lockPath): creates the file when it is missing and
\* succeeds when it is there.
EnsureFile(c) ==
    /\ acq[c].pc = "ensureFile"
    /\ \E fault \in BOOLEAN :
           IF fault
           THEN /\ acq' = [acq EXCEPT ![c] = EndAcq(@, "IOError")]
                /\ disk' = disk
           ELSE /\ acq' = [acq EXCEPT ![c] = [@ EXCEPT !.pc = "readFile", !.acquired = TRUE]]
                /\ disk' = [disk EXCEPT !.lock = TRUE]
    /\ UNCHANGED <<store, req, pre, started, route, reg, lease, leaseId, files, hist>>

\* FS.readFile(configPath).then(Yaml.load).then(RepoConfig.parse)
ReadFile(c) ==
    /\ acq[c].pc = "readFile"
    /\ \E fault \in BOOLEAN :
           LET parsed == YamlLoadParse(disk.config)
           IN acq' = [acq EXCEPT ![c] =
                         IF fault THEN EndAcq(@, "IOError")
                         ELSE IF ~parsed.ok THEN EndAcq(@, parsed.err)
                         ELSE [@ EXCEPT !.pc = "fileCb", !.config = parsed.val]]
    /\ UNCHANGED <<store, req, pre, started, route, reg, lease, leaseId, files, hist, disk>>

\* const updatedConfig = await cb(config); if (updatedConfig) ...
FileTransform(c) ==
    /\ acq[c].pc = "fileCb"
    /\ \E result \in CallbackResults :
           acq' = [acq EXCEPT ![c] =
                      IF result = JsString("throw") THEN EndAcq(@, "TransformError")
                      ELSE IF result = JsString("void") THEN [@ EXCEPT !.pc = "remove"]
                      ELSE [@ EXCEPT !.pc = "writeFile", !.updated = result]]
    /\ UNCHANGED <<store, req, pre, started, route, reg, lease, leaseId, files, hist, disk>>

\* await FS.writeFile(configPath, Yaml.dump(updatedConfig), 'utf8')
WriteFile(c) ==
    /\ acq[c].pc = "writeFile"
    /\ \E fault \in BOOLEAN :
           IF fault
           THEN /\ acq' = [acq EXCEPT ![c] = EndAcq(@, "IOError")]
                /\ disk' = disk
           ELSE /\ acq' = [acq EXCEPT ![c].pc = "remove"]
                /\ disk' = [disk EXCEPT !.config = YamlDump(acq[c].updated)]
    /\ UNCHANGED <<store, req, pre, started, route, reg, lease, leaseId, files, hist>>

\* await FS.remove(lockPath): the last statement; removing a file that is
\* not there succeeds.
RemoveLock(c) ==
    /\ acq[c].pc = "remove"
    /\ acq' = [acq EXCEPT ![c] = EndAcq(@, "OK")]
    /\ disk' = [disk EXCEPT !.lock = FALSE]
    /\ UNCHANGED <<store, req, pre, started, route, reg, lease, leaseId, files, hist>>

NextLock ==
    \E c \in Clients :
        \/ PathExists(c)
        \/ EnsureFile(c)
        \/ ReadFile(c)
        \/ FileTransform(c)
        \/ WriteFile(c)
        \/ RemoveLock(c)

\* What the config file may hold when aquireConfig is called.
DiskFiles == {NoFile, YamlDump(JsString(ObjectObject))} \cup {YamlDump(d) : d \in Docs}

InitLock ==
    /\ store = EmptyStores
    /\ req = [c \in Clients |-> IdleReq]
    /\ pre = store
    /\ started = 0
    /\ route = NoRoute
    /\ reg = NoCall
    /\ lease = Available
    /\ acq = [c \in Clients |-> IdleAcq]
    /\ leaseId = NoLeaseId
    /\ files = NoPaths
    /\ hist = <<>>
    /\ disk \in {[EmptyDisk EXCEPT !.config = f] : f \in DiskFiles}

SpecLock == InitLock /\ [][NextLock]_vars

\* ------------------------------------------------------------------------
\* A handler run from its first await to its response, with no other
\* request in between and no transport failure
\* ------------------------------------------------------------------------

\* PUT handler (hapi.ts 144-162): the outcome, the stores afterwards and
\* whether the backend's save was invoked.
RunPut(stores, key, ifMatch, payload) ==
    LET ex == repoConfigExists(stores, key.registry, key.namespace, key.name, NoSupport, FALSE)
        src == IF ex.val THEN loadRepoConfig(stores, key.registry, key.namespace, key.name, NoSupport, FALSE) ELSE Ok(NoDoc)
        r == PutAfterSource(IdleReq, src.val, ifMatch, payload)
        res == PutSave(stores, key, payload, FALSE)
    IN IF ~ex.ok THEN [outcome |-> ex.err, store |-> stores, saved |-> FALSE]
       ELSE IF ~src.ok THEN [outcome |-> src.err, store |-> stores, saved |-> FALSE]
       ELSE IF r.pc # "save" THEN [outcome |-> r.outcome, store |-> stores, saved |-> FALSE]
       ELSE IF res.ok THEN [outcome |-> "OK", store |-> res.val, saved |-> TRUE]
       ELSE [outcome |-> res.err, store |-> stores, saved |-> TRUE]

\* GET handler (hapi.ts 121-131): the outcome and the document returned.
RunGet(stores, key, ensure, id) ==
    LET ex == repoConfigExists(stores, key.registry, key.namespace, key.name, NoSupport, FALSE)
        src == IF ex.val THEN loadRepoConfig(stores, key.registry, key.namespace, key.name, NoSupport, FALSE)
               ELSE Ok(IF ensure THEN createNew(id) ELSE NoDoc)
        r == GetRespond(IdleReq, src.val)
    IN IF ~ex.ok THEN [outcome |-> ex.err, body |-> NoDoc]
       ELSE IF ~src.ok THEN [outcome |-> src.err, body |-> NoDoc]
       ELSE [outcome |-> r.outcome, body |-> r.body]

\* ------------------------------------------------------------------------
\* Sequences of non-overlapping requests of several clients on one key
\* ------------------------------------------------------------------------

MaxOps == 3

HistoryKey == [registry |-> "az", namespace |-> SeedPath[1], name |-> SeedPath[2]]

\* Tokens a client can send: none, or the ETag of a document it has seen.
KnownTokens == {NoToken} \cup {calculateHash(d) : d \in Replacements}

\* GET /{registry}/{namespace}/{name}: the response carries the document
\* and its hash as ETag.
HistGet ==
    /\ Len(hist) < MaxOps
    /\ \E c \in Clients :
           LET r == RunGet(store, HistoryKey, FALSE, 1)
           IN hist' = Append(hist, [client |-> c, op |-> "GET", outcome |-> r.outcome, saved |-> FALSE,
                                    token |-> IF r.outcome = "OK" THEN calculateHash(r.body) ELSE NoToken])
    /\ UNCHANGED <<store, req, pre, started, route, reg, lease, acq, leaseId, files, disk>>

\* PUT /{registry}/{namespace}/{name} with an If-Match header and a
\* document.
HistPut ==
    /\ Len(hist) < MaxOps
    /\ \E c \in Clients, ifMatch \in KnownTokens, payload \in Replacements :
           LET r == RunPut(store, HistoryKey, ifMatch, payload)
           IN /\ hist' = Append(hist, [client |-> c, op |-> "PUT", outcome |-> r.outcome,
                                       saved |-> r.saved /\ r.outcome = "OK", token |-> ifMatch])
              /\ store' = r.store
    /\ UNCHANGED <<req, pre, started, route, reg, lease, acq, leaseId, files, disk>>

NextHistory == HistGet \/ HistPut

SpecHistory == Init /\ [][NextHistory]_vars

\* ------------------------------------------------------------------------
\* Stored state as observed through the Registry
\* ------------------------------------------------------------------------

\* What exists and load answer for a key when the backend call itself does
\* not fail.
KeyExists(stores, key) == repoConfigExists(stores, key.registry, key.namespace, key.name, NoSupport, FALSE)

KeyLoad(stores, key) == loadRepoConfig(stores, key.registry, key.namespace, key.name, NoSupport, FALSE)

\* The key holds a document that load returns.
Present(stores, key) == KeyExists(stores, key).ok /\ KeyExists(stores, key).val /\ KeyLoad(stores, key).ok

\* The key holds nothing: exists answers false.
AbsentKey(stores, key) == KeyExists(stores, key).ok /\ ~KeyExists(stores, key).val

\* The token of the stored document; the sentinel when there is none.
StoredToken(stores, key) == IF Present(stores, key) THEN calculateHash(KeyLoad(stores, key).val) ELSE NoToken

\* The request of client c, an `op`, has been answered; it passed the
\* version check of the route and none of its backend calls met a transport
\* failure.
Answered(c, op) == req[c].pc = "done" /\ req[c].op = op /\ req[c].outcome # "BadRequest" /\ ~req[c].faulted

\* The key is served by a backend other than the FileStore.
Served(key) == key.registry # "file"

\* ------------------------------------------------------------------------
\* C1
\* ------------------------------------------------------------------------

\* Clients c and d ran two overlapping saves of different documents on one
\* key; each loaded the stored document and carried its token as expected
\* token; both were answered.
Racers(c, d) ==
    /\ c # d
    /\ Answered(c, "PUT") /\ Answered(d, "PUT")
    /\ req[c].overlap /\ req[d].overlap
    /\ req[c].key = req[d].key
    /\ req[c].source # NoDoc /\ req[d].source # NoDoc
    /\ req[c].ifMatch = calculateHash(req[c].source)
    /\ req[d].ifMatch = req[c].ifMatch
    /\ req[c].payload.kind = "doc" /\ req[d].payload.kind = "doc"
    /\ calculateHash(req[c].payload) # calculateHash(req[d].payload)
    /\ calculateHash(req[c].payload) # req[c].ifMatch
    /\ calculateHash(req[d].payload) # req[d].ifMatch

\* C1: of two concurrent saves on one key that carry the same expected
\* token, equal to the stored token, and different documents, exactly one
\* succeeds and the other ends in PreconditionFailed, whatever the
\* interleaving; they never both report success.
C1_ExactlyOneSaveWins ==
    \A c, d \in Clients :
        Racers(c, d) =>
            \/ req[c].outcome = "OK" /\ req[d].outcome = "PreconditionFailed"
            \/ req[d].outcome = "OK" /\ req[c].outcome = "PreconditionFailed"

\* Both racers were told their save succeeded, and each one's backend write
\* was made.
C1_BothSucceed ==
    \E c, d \in Clients :
        /\ Racers(c, d)
        /\ req[c].outcome = "OK" /\ req[d].outcome = "OK"
        /\ req[c].wrote /\ req[d].wrote

\* ------------------------------------------------------------------------
\* C2
\* ------------------------------------------------------------------------

\* The request of c was a save on a key whose stored document had a token
\* other than the expected token the request carried.
StaleSave(c) ==
    /\ Answered(c, "PUT")
    /\ Present(pre, req[c].key)
    /\ req[c].ifMatch # StoredToken(pre, req[c].key)

\* C2: a save on a key whose stored document has token T0, with an expected
\* token other than T0 or with none, ends in PreconditionFailed, does not
\* call the backend's save, and leaves the stored document and its token as
\* they were.
C2_StaleTokenRejected ==
    \A c \in Clients :
        StaleSave(c) =>
            /\ req[c].outcome = "PreconditionFailed"
            /\ "save" \notin req[c].called
            /\ store = pre
            /\ Present(store, req[c].key)
            /\ StoredToken(store, req[c].key) = StoredToken(pre, req[c].key)

\* A save of a well-formed document with no expected token on a present key
\* has been answered.
C2_Witness ==
    \E c \in Clients :
        /\ StaleSave(c)
        /\ req[c].ifMatch = NoToken
        /\ req[c].payload.kind = "doc"
        /\ req[c].outcome = "PreconditionFailed"

\* ------------------------------------------------------------------------
\* C3
\* ------------------------------------------------------------------------

\* The request of c was a save of a well-formed document on a key that
\* held no document, with an expected token other than the sentinel.
SaveOnAbsent(c) ==
    /\ Answered(c, "PUT")
    /\ AbsentKey(pre, req[c].key)
    /\ req[c].ifMatch # NoToken
    /\ req[c].payload.kind = "doc"

\* C3: a save on a key that holds no document, with an expected token other
\* than the "no prior version" sentinel, ends in PreconditionFailed and
\* writes nothing.
C3_AbsentKeyNeedsSentinel ==
    \A c \in Clients :
        SaveOnAbsent(c) =>
            /\ req[c].outcome = "PreconditionFailed"
            /\ "save" \notin req[c].called
            /\ store = pre

\* A save on an absent key that carried the token of some document was
\* answered with success after the backend's save was called and wrote.
C3_StaleTokenAccepted ==
    \E c \in Clients :
        /\ SaveOnAbsent(c)
        /\ req[c].outcome = "OK"
        /\ "save" \in req[c].called
        /\ store # pre

\* ------------------------------------------------------------------------
\* C4
\* ------------------------------------------------------------------------

\* The request of c was the first save on an empty registry: a well-formed
\* document, the sentinel as expected token, a key served by a backend that
\* implements the operations.
FirstSave(c) ==
    /\ Answered(c, "PUT")
    /\ pre = EmptyStores
    /\ Served(req[c].key)
    /\ req[c].ifMatch = NoToken
    /\ req[c].payload.kind = "doc"

\* C4: on an empty registry exists is false for the key; load with ensure
\* returns a fresh document of the server's version; the first save with
\* the sentinel succeeds; a second save of another document with the
\* sentinel ends in PreconditionFailed, and the first document stays stored.
C4_FirstSaveThenSentinel ==
    \A c \in Clients :
        FirstSave(c) =>
            /\ AbsentKey(pre, req[c].key)
            /\ \A id \in 1 .. MaxDocId :
                 LET got == RunGet(pre, req[c].key, TRUE, id)
                 IN got.outcome = "OK" /\ got.body = createNew(id) /\ got.body.apiVersion = resolveApiVersion
            /\ req[c].outcome = "OK"
            /\ \A other \in Docs \ {req[c].payload} :
                 LET second == RunPut(store, req[c].key, NoToken, other)
                 IN /\ second.outcome = "PreconditionFailed"
                    /\ second.store = store
            /\ Present(store, req[c].key)
            /\ StoredToken(store, req[c].key) = calculateHash(req[c].payload)

\* The first save was answered with success and a second save of another
\* document with the sentinel would be answered with success as well.
C4_SecondSaveAccepted ==
    \E c \in Clients :
        /\ FirstSave(c)
        /\ req[c].outcome = "OK"
        /\ \E other \in Docs \ {req[c].payload} : RunPut(store, req[c].key, NoToken, other).outcome = "OK"

\* ------------------------------------------------------------------------
\* C5
\* ------------------------------------------------------------------------

\* The request of c was a save of a well-formed document with the matching
\* expected token, and it was answered with success.
GoodSave(c) ==
    /\ Answered(c, "PUT")
    /\ Served(req[c].key)
    /\ req[c].payload.kind = "doc"
    /\ req[c].ifMatch = StoredToken(pre, req[c].key)
    /\ req[c].outcome = "OK"

\* C5: after a save of document D on key K that succeeded with the matching
\* expected token, load of K returns a document whose token is the token of
\* D, whichever backend serves K.
C5_WriteThenRead ==
    \A c \in Clients :
        GoodSave(c) =>
            /\ KeyLoad(store, req[c].key).ok
            /\ calculateHash(KeyLoad(store, req[c].key).val) = calculateHash(req[c].payload)

\* A save was answered with success, its backend write was made, and load
\* of the key does not return the saved document.
C5_SavedDocumentNotLoaded ==
    \E c \in Clients :
        /\ GoodSave(c)
        /\ req[c].wrote
        /\ ~KeyLoad(store, req[c].key).ok \/ KeyLoad(store, req[c].key).val # req[c].payload

\* ------------------------------------------------------------------------
\* C6
\* ------------------------------------------------------------------------

\* The request of c was a save of the very document the key held, with the
\* matching expected token.
UnchangedSave(c) ==
    /\ Answered(c, "PUT")
    /\ Present(pre, req[c].key)
    /\ req[c].payload.kind = "doc"
    /\ calculateHash(req[c].payload) = StoredToken(pre, req[c].key)
    /\ req[c].ifMatch = StoredToken(pre, req[c].key)

\* A save of a document whose token is the stored token succeeds without a
\* call of the backend's save and leaves the stores as they were.
SkipWhenUnchanged ==
    \A c \in Clients :
        UnchangedSave(c) =>
            /\ req[c].outcome = "OK"
            /\ "save" \notin req[c].called
            /\ store = pre

\* C6: a save of a document whose token equals the stored token, with the
\* matching expected token, succeeds without a call of the backend's save
\* and leaves the stored content as it was; so saving one document twice,
\* the second time with the token of that document as expected token,
\* causes at most one backend write.
C6_IdempotentSave ==
    /\ SkipWhenUnchanged
    /\ \A c \in Clients :
         (GoodSave(c) /\ req[c].wrote) =>
             LET again == RunPut(store, req[c].key, calculateHash(req[c].payload), req[c].payload)
             IN /\ again.outcome = "OK"
                /\ ~again.saved
                /\ again.store = store

\* A save succeeded with a backend write and the same save repeated with the
\* token of the saved document calls the backend's save a second time.
C6_SecondWrite ==
    \E c \in Clients :
        /\ GoodSave(c) /\ req[c].wrote
        /\ RunPut(store, req[c].key, calculateHash(req[c].payload), req[c].payload).saved

\* ------------------------------------------------------------------------
\* C7
\* ------------------------------------------------------------------------

\* The step answers the request of c.
Answers(c) == req[c].pc # "done" /\ req'[c].pc = "done"

\* C7: what the stores hold changes only in a step in which a save or a
\* delete reports success; a step in which an operation reports an error
\* leaves the stores exactly as they were.
C7_StateChangesOnlyOnSuccess ==
    [][ /\ store' # store =>
              \E c \in Clients : Answers(c) /\ req'[c].op \in {"PUT", "DELETE"} /\ req'[c].outcome = "OK"
        /\ \A c \in Clients : (Answers(c) /\ req'[c].outcome # "OK") => store' = store
      ]_vars

\* A save reported success and its write changed what the stores hold.
C7_Witness ==
    \E c \in Clients :
        /\ req[c].pc = "done" /\ req[c].op = "PUT"
        /\ req[c].outcome = "OK" /\ req[c].wrote
        /\ store # pre

\* ------------------------------------------------------------------------
\* C8
\* ------------------------------------------------------------------------

\* The request of c was a delete on a present key with the stored token as
\* expected token.
GoodDelete(c) ==
    /\ Answered(c, "DELETE")
    /\ Present(pre, req[c].key)
    /\ req[c].ifMatch = StoredToken(pre, req[c].key)

\* C8: a delete on a present key with the stored token as expected token
\* succeeds; afterwards exists answers false and load ends in NotFound,
\* whichever backend serves the key.
C8_DeleteRemoves ==
    \A c \in Clients :
        GoodDelete(c) =>
            /\ req[c].outcome = "OK"
            /\ AbsentKey(store, req[c].key)
            /\ ~KeyLoad(store, req[c].key).ok
            /\ KeyLoad(store, req[c].key).err = "NotFound"

\* Such a delete called the backend's delete, was answered with the
\* backend's error, and the document is still stored.
C8_DeleteNotImplemented ==
    \E c \in Clients :
        /\ GoodDelete(c)
        /\ "delete" \in req[c].called
        /\ req[c].outcome = "NotImplemented"
        /\ Present(store, req[c].key)

\* ------------------------------------------------------------------------
\* C9
\* ------------------------------------------------------------------------

\* The request of c was a delete on a present key with an expected token
\* other than the stored token.
StaleDelete(c) ==
    /\ Answered(c, "DELETE")
    /\ Present(pre, req[c].key)
    /\ req[c].ifMatch # StoredToken(pre, req[c].key)

\* C9: a delete on an absent key ends in NotFound whatever expected token
\* it carries; a delete on a present key with an expected token other than
\* the stored token ends in PreconditionFailed, does not call the backend's
\* delete, and the document stays stored with the same token.
C9_DeleteRejections ==
    \A c \in Clients :
        /\ (Answered(c, "DELETE") /\ AbsentKey(pre, req[c].key)) =>
               /\ req[c].outcome = "NotFound"
               /\ "delete" \notin req[c].called
               /\ store = pre
        /\ StaleDelete(c) =>
               /\ req[c].outcome = "PreconditionFailed"
               /\ "delete" \notin req[c].called
               /\ store = pre
               /\ Present(store, req[c].key)
               /\ StoredToken(store, req[c].key) = StoredToken(pre, req[c].key)

\* A delete with the token of another document on a present key has been
\* answered.
C9_Witness ==
    \E c \in Clients :
        /\ StaleDelete(c)
        /\ req[c].ifMatch # NoToken
        /\ req[c].outcome = "PreconditionFailed"

\* A delete on an absent key that carried the token of some document has
\* been answered.
AbsentDeleteAnswered ==
    \E c \in Clients :
        /\ Answered(c, "DELETE") /\ AbsentKey(pre, req[c].key)
        /\ req[c].ifMatch # NoToken
        /\ req[c].outcome = "NotFound"

\* ------------------------------------------------------------------------
\* C10
\* ------------------------------------------------------------------------

\* The positions of the table route.backends that have a pattern matching
\* the string route.file.
Matching == {i \in 1 .. Len(route.backends) : \E j \in 1 .. Len(route.backends[i].patterns) : Minimatch(route.file, route.backends[i].patterns[j])}

\* C10: getBackend matches the string registry/namespace/name[/support] and
\* returns the backend at the lowest position of the table that has a
\* matching pattern, also when later backends match; with none it fails
\* with NoBackendMatched; the same key against the same table resolves the
\* same way at every call.
C10_FirstMatchWins ==
    /\ [](route # NoRoute =>
            /\ Len(route.file) \in {3, 4}
            /\ Matching = {} => (~route.resolved.ok /\ route.resolved.err = "NoBackendMatched")
            /\ Matching # {} =>
                 /\ route.resolved.ok
                 /\ \E i \in Matching :
                      /\ \A k \in Matching : i <= k
                      /\ route.resolved.val = route.backends[i]
                      /\ route.resolved.val.name = <<"backend", i>>)
    /\ [][(route # NoRoute /\ route'.backends = route.backends /\ route'.file = route.file) => route'.resolved = route.resolved]_vars

\* A key was resolved to the first backend of a table in which a later
\* backend matches it as well.
C10_Witness ==
    /\ route # NoRoute
    /\ Cardinality(Matching) >= 2
    /\ route.resolved.ok
    /\ route.resolved.val.name = <<"backend", 1>>
    /\ Len(route.file) = 4

\* ------------------------------------------------------------------------
\* C11
\* ------------------------------------------------------------------------

\* A Registry operation was called on a key that no pattern of any backend
\* of the table matches.
Unrouted ==
    /\ reg # NoCall
    /\ \A i \in 1 .. Len(reg.backends) : \A j \in 1 .. Len(reg.backends[i].patterns) :
           ~Minimatch(<<reg.key.registry, reg.key.namespace, reg.key.name>>, reg.backends[i].patterns[j])

\* C11: on a key that no pattern of any backend matches, the empty table
\* included, each of exists, load, save and delete fails with
\* NoBackendMatched, calls no operation of any backend and uses no default
\* backend; the stores are as they were.
C11_UnroutedKeyFails ==
    Unrouted =>
        /\ ~reg.out.ok
        /\ reg.out.err = "NoBackendMatched"
        /\ reg.calls = <<>>
        /\ store = reg.before

\* A save was called on an unmatched key against a table that has backends.
C11_Witness ==
    /\ Unrouted
    /\ reg.op = "save"
    /\ Len(reg.backends) = 2
    /\ reg.out = Throw("NoBackendMatched")

\* ------------------------------------------------------------------------
\* C12
\* ------------------------------------------------------------------------

\* The backend that served the Registry call, and what it held under the
\* key before the call.
ServedBy == storageBackends[CHOOSE i \in 1 .. Len(storageBackends) : storageBackends[i].name = reg.calls[1].backend]

HeldBefore == StoreOf(reg.before, ServedBy)[BlobPath(reg.key.namespace, reg.key.name, NoSupport)]

\* The version stored with a document: the sidecar metadata of a blob or
\* an object, the field embedded in the document at a remote peer.
StoredVersion(backend, blob) ==
    IF backend.storageType = "glfs" THEN blob.content.apiVersion ELSE CoerceVersion(blob.version)

\* A load reached a backend that held, under the key, a document stored
\* with a version greater than the server's; the call met no transport
\* failure.
LoadOfNewer ==
    /\ reg # NoCall /\ reg.op = "load" /\ ~reg.fault
    /\ reg.calls # <<>>
    /\ HeldBefore # Absent
    /\ StoredVersion(ServedBy, HeldBefore) > resolveApiVersion

\* C12: in every backend variant, load of a document stored with a version
\* greater than the server's fails with VersionIncompatible and returns no
\* document content.
C12_NewerVersionRefused ==
    LoadOfNewer => (~reg.out.ok /\ reg.out.err = "VersionIncompatible")

\* The same for the two variants that keep the version as sidecar metadata.
SidecarGate ==
    (LoadOfNewer /\ ServedBy.storageType \in {"azureBlobStorage", "s3"}) =>
        (~reg.out.ok /\ reg.out.err = "VersionIncompatible")

\* A load through the remote peer returned a document that declares a
\* version greater than the server's.
C12_NewerReturnedByPeer ==
    /\ LoadOfNewer
    /\ ServedBy.storageType = "glfs"
    /\ reg.out.ok
    /\ reg.out.val.apiVersion > resolveApiVersion

\* ------------------------------------------------------------------------
\* C13
\* ------------------------------------------------------------------------

\* C13: every document that a load returned to a handler, be it the GET
\* handler or the load made for the hash check of a save or a delete,
\* declares an apiVersion not greater than the server's.
C13_LoadedVersionBounded ==
    \A c \in Clients :
        /\ req[c].source # NoDoc => ~SemverGt(req[c].source.apiVersion, resolveApiVersion)
        /\ req[c].body # NoDoc => ~SemverGt(req[c].body.apiVersion, resolveApiVersion)

\* The load made for the hash check of a save returned a document that
\* declares a version greater than the server's, and the save went on to
\* compare tokens with it.
C13_NewerLoadedForCheck ==
    \E c \in Clients :
        /\ req[c].pc = "done" /\ req[c].op = "PUT" /\ ~req[c].faulted
        /\ req[c].source # NoDoc
        /\ SemverGt(req[c].source.apiVersion, resolveApiVersion)
        /\ req[c].outcome = "PreconditionFailed"

\* What the GET handler hands to the client is bounded.
GetBodyBounded == \A c \in Clients : req[c].body # NoDoc => ~SemverGt(req[c].body.apiVersion, resolveApiVersion)

\* ------------------------------------------------------------------------
\* C14
\* ------------------------------------------------------------------------

\* What the serving backend holds under the key after the call.
HeldAfter == StoreOf(store, ServedBy)[BlobPath(reg.key.namespace, reg.key.name, NoSupport)]

\* A save through the Registry has succeeded.
SaveDone == reg # NoCall /\ reg.op = "save" /\ reg.out.ok

\* C14: after a successful save through any backend variant the version
\* stored with the document is the server's API version, whatever
\* apiVersion the document declares.
C14_SavedTagIsServerVersion ==
    SaveDone =>
        /\ HeldAfter # Absent
        /\ StoredVersion(ServedBy, HeldAfter) = API_VERSION

\* The same for the two variants that keep the version as sidecar metadata.
SidecarTagOnSave ==
    (SaveDone /\ ServedBy.storageType \in {"azureBlobStorage", "s3"}) =>
        /\ HeldAfter # Absent
        /\ HeldAfter.version = Tag(API_VERSION)
        /\ HeldAfter.content = JSONstringify(reg.config)

\* A document declaring a newer version was saved through the remote peer
\* and the version stored with it is the declared one.
C14_PeerKeepsDeclaredVersion ==
    /\ SaveDone
    /\ ServedBy.storageType = "glfs"
    /\ reg.config.apiVersion # API_VERSION
    /\ StoredVersion(ServedBy, HeldAfter) = reg.config.apiVersion

\* ------------------------------------------------------------------------
\* C15
\* ------------------------------------------------------------------------

\* The decision of the load paths' gate on a stored version tag
\* (storage.ts 265-270, 360-364).
LoadGateAccepts(tag) == ~SemverGt(CoerceVersion(tag), resolveApiVersion)

\* The request of c has been through the route's version check.
Gated(c) == req[c].pc \notin {"idle", "validate"}

\* C15: the version gate is one function: a version that the request check
\* accepts is accepted by the stored-document check of the load paths, and
\* one that it rejects is rejected there.
C15_OneVersionGate ==
    \A c \in Clients :
        Gated(c) => ((req[c].outcome # "BadRequest") <=> LoadGateAccepts(req[c].header))

\* A request was rejected for a version that the load paths accept on a
\* stored document.
C15_GatesDisagree ==
    \E c \in Clients :
        /\ Gated(c)
        /\ req[c].header # NoVersion
        /\ req[c].outcome = "BadRequest"
        /\ LoadGateAccepts(req[c].header)

\* ------------------------------------------------------------------------
\* C16
\* ------------------------------------------------------------------------

\* The request of c declared a version greater than the server's.
DeclaresNewer(c) == Gated(c) /\ SemverGt(CoerceVersion(req[c].header), resolveApiVersion)

\* C16: the version check of the request runs before anything else: a
\* request that declares a version greater than the server's is rejected,
\* no Registry or backend operation is called for it and the stores are as
\* they were.
C16_VersionCheckFirst ==
    \A c \in Clients :
        DeclaresNewer(c) =>
            /\ req[c].pc = "done"
            /\ req[c].outcome = "BadRequest"
            /\ req[c].called = {}
            /\ ~req[c].wrote
            /\ store = pre

\* A save that declared a newer version has been rejected.
C16_Witness ==
    \E c \in Clients :
        /\ DeclaresNewer(c)
        /\ req[c].op = "PUT"
        /\ req[c].outcome = "BadRequest"

\* ------------------------------------------------------------------------
\* C17
\* ------------------------------------------------------------------------

\* The key holds a document that declares a version the server admits.
Admitted(stores, key) == Present(stores, key) /\ ~SemverGt(KeyLoad(stores, key).val.apiVersion, resolveApiVersion)

\* C17: a load of a present key returns the stored document whatever the
\* ensure flag; a load of an absent key returns a freshly constructed
\* document when the flag is set and ends in NotFound when it is not; the
\* fresh document is not stored.
C17_EnsureFlag ==
    \A c \in Clients :
        Answered(c, "GET") =>
            /\ Admitted(pre, req[c].key) =>
                   /\ req[c].outcome = "OK"
                   /\ req[c].body = KeyLoad(pre, req[c].key).val
            /\ (AbsentKey(pre, req[c].key) /\ req[c].ensure) =>
                   /\ req[c].outcome = "OK"
                   /\ req[c].body \in {createNew(id) : id \in 1 .. MaxDocId}
                   /\ req[c].called = {"exists"}
                   /\ store = pre
            /\ (AbsentKey(pre, req[c].key) /\ ~req[c].ensure) =>
                   /\ req[c].outcome = "NotFound"
                   /\ req[c].body = NoDoc

\* A load with the flag set on an absent key has returned a fresh document.
C17_Witness ==
    \E c \in Clients :
        /\ Answered(c, "GET")
        /\ AbsentKey(pre, req[c].key) /\ req[c].ensure
        /\ req[c].outcome = "OK"
        /\ req[c].body.apiVersion = resolveApiVersion

\* A load with the flag set on a present key has returned the stored
\* document.
EnsureOnPresent ==
    \E c \in Clients :
        /\ Answered(c, "GET")
        /\ Admitted(pre, req[c].key) /\ req[c].ensure
        /\ req[c].body = KeyLoad(pre, req[c].key).val

\* ------------------------------------------------------------------------
\* C18
\* ------------------------------------------------------------------------

\* The caller is between a granted acquireLease and the end of its call.
InSection(c) == acq[c].op = "aquire" /\ acq[c].pc \in {"download", "cb", "upload", "release"}

\* The caller's aquireConfig call was granted the lease and has ended.
EndedAquire(c) == acq[c].op = "aquire" /\ acq[c].pc = "done" /\ acq[c].acquired

\* C18: aquireConfig releases the lease on every exit path (normal return,
\* the transform raising, download or parse failure, upload failure): once
\* a call that was granted the lease has ended and no other call is in its
\* section, the lease on the key is not held.
C18_LeaseReleasedOnEveryExit ==
    \A c \in Clients :
        (EndedAquire(c) /\ \A d \in Clients : ~InSection(d)) => lease = Available

\* The transform raised, the call has ended, nobody is in the section and
\* the lease is still held.
C18_LeaseLeftHeld ==
    \E c \in Clients :
        /\ EndedAquire(c)
        /\ acq[c].outcome = "TransformError"
        /\ \A d \in Clients : ~InSection(d)
        /\ lease = Leased(acq[c].leaseId)

\* The normal return does release: a call that ended in OK alone has left
\* the lease available.
ReleasedOnNormalReturn ==
    \A c \in Clients :
        (EndedAquire(c) /\ acq[c].outcome = "OK" /\ \A d \in Clients \ {c} : acq[d].op # "aquire") => lease = Available

\* A later acquire on the key was refused although no call is in its
\* section.
LaterAcquireRefused ==
    \E c, d \in Clients :
        /\ EndedAquire(c) /\ acq[c].outcome # "OK"
        /\ acq[d].op = "aquire" /\ acq[d].pc = "done" /\ acq[d].outcome = "LeaseAlreadyPresent"

\* ------------------------------------------------------------------------
\* C19
\* ------------------------------------------------------------------------

\* C19: for callers that all use the backend's configured lease identifier,
\* at most one caller at a time is between a granted acquire and its
\* release.
C19_LeaseMutualExclusion ==
    leaseId = ConfiguredLeaseId => \A c, d \in Clients : (InSection(c) /\ InSection(d)) => c = d

\* Two callers proposing the configured identifier are in their sections
\* together.
C19_TwoInSection ==
    \E c, d \in Clients :
        /\ c # d
        /\ leaseId = ConfiguredLeaseId
        /\ InSection(c) /\ InSection(d)
        /\ acq[c].leaseId = acq[d].leaseId

\* With no identifier configured every lease client proposes its own, and
\* the sections exclude each other.
GeneratedIdsExclude ==
    leaseId = NoLeaseId => \A c, d \in Clients : (InSection(c) /\ InSection(d)) => c = d

\* ------------------------------------------------------------------------
\* C20
\* ------------------------------------------------------------------------

\* The caller's plain operation has ended.
PlainEnded(c, op) == acq[c].op = op /\ acq[c].pc = "done"

\* The operation met a held lease when it was issued.
MetLease(c) == acq[c].leasedAt.state = "leased"

\* C20: while a lease is held a plain save or delete by another caller
\* leaves the blob as it was, and plain load and save requests carry the
\* hold as their request condition.
C20_PlainOpsConditionedOnHold ==
    \A c \in Clients :
        /\ ((PlainEnded(c, "save") \/ PlainEnded(c, "delete")) /\ MetLease(c))
               => acq[c].outcome # "OK"
        /\ ((PlainEnded(c, "save") \/ PlainEnded(c, "load")) /\ MetLease(c))
               => acq[c].conditions = acq[c].leasedAt.id

\* A plain save met a held lease, carried no condition and was refused by
\* the service.
C20_PlainSaveCarriesNoHold ==
    \E c \in Clients :
        /\ PlainEnded(c, "save")
        /\ MetLease(c)
        /\ acq[c].conditions = NoLeaseId
        /\ acq[c].outcome = "LeaseIdMissing"

\* The service refuses every plain write to a leased blob.
PlainWriteRefusedWhileLeased ==
    \A c \in Clients :
        ((PlainEnded(c, "save") \/ PlainEnded(c, "delete")) /\ MetLease(c)) => acq[c].outcome # "OK"

\* ------------------------------------------------------------------------
\* C21
\* ------------------------------------------------------------------------

\* An exists call reached a backend that held nothing under the key, and
\* met no transport failure.
ExistsOnAbsent ==
    /\ reg # NoCall /\ reg.op = "exists" /\ ~reg.fault
    /\ reg.calls # <<>>
    /\ HeldBefore = Absent

\* C21: in each of the four backend variants, exists on a key with no
\* stored document returns false and raises no error.
C21_ExistsOnAbsentIsFalse ==
    ExistsOnAbsent => reg.out = Ok(FALSE)

\* The same for the three variants other than the FileStore.
ExistsOnAbsentElsewhere ==
    (ExistsOnAbsent /\ ServedBy.storageType # "file") => reg.out = Ok(FALSE)

\* exists on the FileStore, which holds nothing, has raised an error.
C21_FileStoreExistsThrows ==
    /\ ExistsOnAbsent
    /\ ServedBy.storageType = "file"
    /\ reg.out = Throw("NotImplemented")

\* ------------------------------------------------------------------------
\* C22
\* ------------------------------------------------------------------------

\* An operation of the RemoteProxyStore was answered by the peer with a
\* status outside 2xx.
PeerRefused == reg # NoCall /\ ~AxiosResolves(reg.status)

\* C22: the peer's status decides the outcome of every operation: 404 is
\* NotFound (absence, for exists), 412 is PreconditionFailed and every
\* other status outside 2xx is BackendUnavailable; no such status is
\* reported as success, and none but 404 as absence.
C22_PeerStatusDecides ==
    PeerRefused =>
        IF reg.op = "exists" /\ reg.status = 404 THEN reg.out = Ok(FALSE)
        ELSE /\ ~reg.out.ok
             /\ reg.out.err = (IF reg.status = 404 THEN "NotFound"
                               ELSE IF reg.status = 412 THEN "PreconditionFailed"
                               ELSE "BackendUnavailable")

\* The peer answered 500 to the probe of a key it holds, and exists reported
\* the key as absent.
C22_FailureReportedAsAbsence ==
    /\ PeerRefused
    /\ reg.op = "exists"
    /\ reg.status = 500
    /\ reg.before[PeerStore][<<reg.key.namespace, reg.key.name>>] # Absent
    /\ reg.out = Ok(FALSE)

\* load and save do fail on every status outside 2xx, and save leaves the
\* peer's content alone.
LoadSaveRejected ==
    (PeerRefused /\ reg.op \in {"load", "save"}) => (~reg.out.ok /\ store = reg.before)

\* ------------------------------------------------------------------------
\* C23
\* ------------------------------------------------------------------------

\* The path lies inside the directory.
Inside(root, path) == Len(path) > Len(root) /\ SubSeq(path, 1, Len(root)) = root

\* The key has a segment that climbs.
Climbs == \E i \in 1 .. Len(files.namespace \o files.name \o files.support) : (files.namespace \o files.name \o files.support)[i] = ".."

\* C23: for every namespace, name and support qualifier, those holding ".."
\* or separators included, the resolved config path and lock path lie
\* inside the store's configured root directory.
C23_PathsInsideConfiguredRoot ==
    files # NoPaths => (Inside(files.reposPath, files.paths[1]) /\ Inside(files.reposPath, files.paths[2]))

\* The paths of a store configured with a root elsewhere lie outside that
\* root.
C23_OutsideConfiguredRoot ==
    /\ files # NoPaths
    /\ files.reposPath = <<"srv", "repos">>
    /\ ~Inside(files.reposPath, files.paths[1])
    /\ ~Inside(files.reposPath, files.paths[2])

\* The climbing segments are neutralized: every path lies inside the
\* .gitflow directory of the working directory, and holds no "..".
ClimbNeutralized ==
    files # NoPaths =>
        \A k \in 1 .. 2 :
            /\ Inside(Cwd \o <<".gitflow">>, files.paths[k])
            /\ \A i \in 1 .. Len(files.paths[k]) : files.paths[k][i] # ".."

\* A key that climbs above configs has been resolved.
ClimbResolved == files # NoPaths /\ Climbs /\ files.paths[1] = Cwd \o <<".gitflow", "gitflow.yml">>

\* ------------------------------------------------------------------------
\* C24
\* ------------------------------------------------------------------------

\* What the same registry, namespace and name with no support qualifier
\* are given.
BareFile == Flatten(route.key.registry, route.key.namespace, route.key.name, NoSupport)

BareAddress == BlobPath(route.key.namespace, route.key.name, NoSupport)

\* C24: a key whose support qualifier is present but empty is not given
\* both the flattened routing string and the physical address of the same
\* registry, namespace and name without a support qualifier.
C24_EmptySupportIsDistinct ==
    (route # NoRoute /\ route.support = <<"">>) => ~(route.file = BareFile /\ route.address = BareAddress)

\* A key with an empty support qualifier was resolved to a backend under
\* the string and the address of the key without one.
C24_EmptySupportCollides ==
    /\ route # NoRoute
    /\ route.support = <<"">>
    /\ route.resolved.ok
    /\ route.file = BareFile
    /\ route.address = BareAddress

\* A support qualifier that is not empty does give a string and an address
\* of its own.
NamedSupportIsDistinct ==
    (route # NoRoute /\ route.support \notin {NoSupport, <<"">>}) => (route.file # BareFile /\ route.address # BareAddress)

\* ------------------------------------------------------------------------
\* C25
\* ------------------------------------------------------------------------

\* A Registry operation was called on a key that a backend of the table
\* matches.
RoutedCall == reg # NoCall /\ getBackend(reg.backends, reg.key.registry, reg.key.namespace, reg.key.name, NoSupport).ok

\* What the operation does when nobody is subscribed.
Unnotified == RegistryOp(reg.backends, reg.before, reg.op, reg.config, reg.key.registry, reg.key.namespace, reg.key.name, NoSupport, FALSE)

\* C25: the notification cannot fail or block the resolution: whatever the
\* subscribers of onResolvedBackend do, the operation makes its backend
\* call and ends as it does with no subscriber.
C25_NotificationCannotFail ==
    RoutedCall =>
        /\ reg.calls # <<>>
        /\ reg.out = Unnotified.out
        /\ store = Unnotified.after

\* A subscriber raised: the save of a routed key made no backend call and
\* ended in the subscriber's error.
C25_SubscriberFailsCall ==
    /\ RoutedCall
    /\ reg.op = "save"
    /\ reg.subscribers = <<"returns", "throws">>
    /\ reg.calls = <<>>
    /\ reg.out = Throw("SubscriberError")
    /\ Unnotified.out.ok

\* With subscribers that all return, the operation goes on as with none.
ReturningSubscribersPass ==
    (RoutedCall /\ \A i \in 1 .. Len(reg.subscribers) : reg.subscribers[i] = "returns") =>
        (reg.calls # <<>> /\ reg.out = Unnotified.out /\ store = Unnotified.after)

\* ------------------------------------------------------------------------
\* C26
\* ------------------------------------------------------------------------

\* Caller c is the only one that has done anything.
Alone(c) == \A d \in Clients \ {c} : acq[d].op = "none"

\* C26: in aquireConfig an upload happens if and only if the transform
\* returned a replacement document: when it returns nothing the call goes
\* to the release and the blob is left as it was; when it returns a
\* document the upload, made under the held lease, makes the blob exactly
\* that document.
C26_UploadIffReplacement ==
    /\ [](\A c \in Clients :
             (acq[c].op = "aquire" /\ acq[c].pc = "done" /\ acq[c].outcome = "OK" /\ Alone(c)) =>
                 IF acq[c].updated = NoDoc THEN LeaseBlob = acq[c].before
                 ELSE LeaseBlob = Blob(JSONstringify(acq[c].updated), NoVersion))
    /\ [][\A c \in Clients :
             /\ (acq[c].pc = "cb" /\ acq'[c] # acq[c]) =>
                    /\ store' = store
                    /\ acq'[c].pc = "upload" <=> acq'[c].updated # NoDoc
                    /\ acq'[c].pc = "release" => acq'[c].updated = NoDoc
             /\ (acq[c].pc = "upload" /\ acq'[c].pc = "release") =>
                    /\ lease = Leased(acq[c].leaseId)
                    /\ LeaseBlob' = Blob(JSONstringify(acq[c].updated), NoVersion)
                    /\ RepoConfigParse(LeaseBlob'.content) = Ok(acq[c].updated)
             /\ (acq[c].pc = "upload" /\ acq'[c].pc = "done") => store' = store]_vars

\* A lone call whose transform returned a document other than the stored
\* one has ended, and the blob holds that document.
C26_Witness ==
    \E c \in Clients :
        /\ acq[c].op = "aquire" /\ acq[c].pc = "done" /\ acq[c].outcome = "OK" /\ Alone(c)
        /\ acq[c].updated # NoDoc
        /\ acq[c].updated # acq[c].config
        /\ LeaseBlob = Blob(JSONstringify(acq[c].updated), NoVersion)

\* A lone call whose transform returned nothing has ended.
NothingReturned ==
    \E c \in Clients :
        /\ acq[c].op = "aquire" /\ acq[c].pc = "done" /\ acq[c].outcome = "OK" /\ Alone(c)
        /\ acq[c].updated = NoDoc
        /\ LeaseBlob = acq[c].before

\* ------------------------------------------------------------------------
\* C27
\* ------------------------------------------------------------------------

\* The backend that getBackend returns for the key of the Registry call.
Resolved == getBackend(reg.backends, reg.key.registry, reg.key.namespace, reg.key.name, NoSupport)

\* The outcome of the one call of the resolved backend's operation.
SingleAttempt ==
    BackendCall(Resolved.val, StoreOf(reg.before, Resolved.val), reg.op, reg.config,
                reg.key.namespace, reg.key.name, NoSupport, reg.fault)

\* C27: each Registry operation makes exactly one call, of the operation of
\* the same name, on the resolved backend and returns that call's outcome;
\* a failed call is not retried and no second backend is tried.
C27_SingleAttempt ==
    (reg # NoCall /\ Resolved.ok) =>
        /\ reg.calls = << [backend |-> Resolved.val.name, op |-> reg.op] >>
        /\ SingleAttempt.ok <=> reg.out.ok
        /\ ~SingleAttempt.ok => (reg.out = SingleAttempt /\ store = reg.before)
        /\ (SingleAttempt.ok /\ reg.op \in {"exists", "load"}) => (reg.out = SingleAttempt /\ store = reg.before)
        /\ (SingleAttempt.ok /\ reg.op = "save") => store = [reg.before EXCEPT ![Resolved.val.name] = SingleAttempt.val]

\* A load that met a transport failure at the first of two matching
\* backends has ended in that failure after one call.
C27_Witness ==
    /\ reg # NoCall /\ Resolved.ok
    /\ reg.op = "load" /\ reg.fault
    /\ Len(reg.backends) = 4
    /\ Resolved.val.name = "azure"
    /\ reg.before["s3"][<<reg.key.namespace, reg.key.name>>] # Absent
    /\ reg.out = Throw("BackendUnavailable")
    /\ Len(reg.calls) = 1

\* ------------------------------------------------------------------------
\* C28
\* ------------------------------------------------------------------------

\* What exists and load answer for a key under the table of the Registry
\* call, on given stores.
Probe(stores, key) ==
    << RegistryOp(reg.backends, stores, "exists", NoDoc, key.registry, key.namespace, key.name, NoSupport, FALSE).out,
       RegistryOp(reg.backends, stores, "load", NoDoc, key.registry, key.namespace, key.name, NoSupport, FALSE).out >>

\* A save or a delete has succeeded.
Changed == reg # NoCall /\ reg.op \in {"save", "delete"} /\ reg.out.ok

\* C28: a successful save or delete on a key never changes what exists and
\* load return for any other key, keys that differ only in the registry and
\* resolve to the same backend included.
C28_KeyIsolation ==
    Changed => \A other \in Keys \ {reg.key} : Probe(store, other) = Probe(reg.before, other)

\* A save under one registry has changed what load returns for the same
\* namespace and name under another registry served by the same backend.
C28_OtherRegistryChanged ==
    /\ Changed
    /\ \E other \in Keys :
           /\ other.registry # reg.key.registry
           /\ other.namespace = reg.key.namespace /\ other.name = reg.key.name
           /\ Probe(reg.before, other)[2] = Throw("NotFound")
           /\ Probe(store, other)[2] = Ok(reg.config)

\* Keys with another namespace or name, and keys served by another backend,
\* are left alone.
OtherAddressIsolated ==
    Changed =>
        \A other \in Keys :
            (\/ <<other.namespace, other.name>> # <<reg.key.namespace, reg.key.name>>
             \/ getBackend(reg.backends, other.registry, other.namespace, other.name, NoSupport) # Resolved)
                => Probe(store, other) = Probe(reg.before, other)

\* ------------------------------------------------------------------------
\* C29
\* ------------------------------------------------------------------------

\* The save request of client c was answered after a backend write.
Wrote(c) == Answered(c, "PUT") /\ req[c].wrote

\* The backend and the address that repoConfigExists and loadRepoConfig
\* used for the request's key.
CheckedBackend(c) == getBackend(storageBackends, req[c].key.registry, req[c].key.namespace, req[c].key.name, NoSupport)

CheckedAddress(c) == BlobPath(req[c].key.namespace, req[c].key.name, NoSupport)

\* The stores after a save of the parsed payload under the request's key.
SavedUnderKey(c) == saveRepoConfig(pre, req[c].payload, req[c].key.registry, req[c].key.namespace, req[c].key.name, NoSupport, FALSE)

\* C29: within one save request the write goes to the backend and address
\* that the check used, and the document written is the parsed payload.
C29_WriteGoesToCheckedKey ==
    \A c \in Clients :
        Wrote(c) =>
            /\ SavedUnderKey(c).ok
            /\ store = SavedUnderKey(c).val
            /\ RepoConfigParse(store[CheckedBackend(c).val.name][CheckedAddress(c)].content) = Ok(req[c].payload)

\* A save request was answered OK after writing the registry string at
\* another address, and the checked address holds what it held.
C29_WroteElsewhere ==
    \E c \in Clients : \E b \in StoreNames :
        /\ Wrote(c)
        /\ req[c].outcome = "OK"
        /\ CheckedBackend(c).ok /\ CheckedBackend(c).val.name \in StoreNames
        /\ store[CheckedBackend(c).val.name][CheckedAddress(c)] = pre[CheckedBackend(c).val.name][CheckedAddress(c)]
        /\ store[b][<<req[c].key.name, ObjectObject>>].kind = "blob"
        /\ store[b][<<req[c].key.name, ObjectObject>>].content = JSONstringify(JsString(req[c].key.registry))

\* ------------------------------------------------------------------------
\* C30
\* ------------------------------------------------------------------------

\* Request i is a load that gave its client a token, request k a later
\* save of the same client that expected that token and succeeded.
LoadThenSave(i, k) ==
    /\ i < k
    /\ hist[i].op = "GET" /\ hist[i].outcome = "OK"
    /\ hist[k].op = "PUT" /\ hist[k].outcome = "OK"
    /\ hist[k].client = hist[i].client
    /\ hist[k].token = hist[i].token

\* Request j is a content-changing save of another client that succeeded
\* between the two.
SavedBetween(i, j, k) ==
    /\ i < j /\ j < k
    /\ hist[j].op = "PUT" /\ hist[j].outcome = "OK" /\ hist[j].saved
    /\ hist[j].client # hist[i].client

\* C30: if a client loads a document with token T and a later save of its
\* own expecting T succeeds, no other client's content-changing save on the
\* key succeeded in between, for any sequence of non-overlapping requests.
C30_NoLostUpdate ==
    \A i, j, k \in 1 .. Len(hist) : LoadThenSave(i, k) => ~SavedBetween(i, j, k)

\* A client's save with the token of its load succeeded after another
\* client's content-changing save had succeeded, and the key still holds
\* the document that was loaded first.
C30_TokenReusedAfterSave ==
    /\ Len(hist) = 3
    /\ LoadThenSave(1, 3)
    /\ SavedBetween(1, 2, 3)
    /\ hist[3].saved
    /\ hist[1].token = calculateHash(KeyLoad(store, HistoryKey).val)

\* ------------------------------------------------------------------------
\* C31
\* ------------------------------------------------------------------------

\* The caller is between creating the lock file and removing it.
InFileSection(c) == acq[c].op = "aquireFile" /\ acq[c].pc \in {"readFile", "fileCb", "writeFile", "remove"}

\* C31: for two concurrent FileStore aquireConfig calls on one key, at most
\* one at a time is between creating the lock file and removing it.
C31_LockFileExcludes ==
    \A c, d \in Clients : (InFileSection(c) /\ InFileSection(d)) => c = d

\* Two callers are in their sections together, each with the document it
\* read.
C31_BothInFileSection ==
    \E c, d \in Clients :
        /\ c # d
        /\ acq[c].pc = "fileCb" /\ acq[d].pc = "fileCb"
        /\ acq[c].config = acq[d].config
        /\ disk.lock

\* A caller is still in its section and the lock file is gone.
SectionWithoutLock == \E c \in Clients : InFileSection(c) /\ ~disk.lock

\* ------------------------------------------------------------------------
\* C32
\* ------------------------------------------------------------------------

\* A FileStore aquireConfig call has ended and no call is in progress.
FileCallsEnded ==
    /\ \E c \in Clients : acq[c].op = "aquireFile" /\ acq[c].pc = "done"
    /\ \A c \in Clients : acq[c].pc \in {"idle", "done"}

\* C32: FileStore aquireConfig leaves no lock file behind: it fails before
\* creating one when the config file does not exist, and after it ends in
\* any other way (normal return, read or parse failure, the callback
\* raising, write failure) the lock file of the key has been removed.
C32_NoLockFileLeft ==
    FileCallsEnded => ~disk.lock

\* The callback raised; the call has ended, no call is in progress and the
\* lock file is there.
C32_LockFileLeft ==
    /\ FileCallsEnded
    /\ \E c \in Clients : acq[c].outcome = "TransformError" /\ acq[c].acquired
    /\ disk.lock

\* A call on a key with no config file fails before a lock file is made,
\* and a lone call that returns normally has removed it.
LockRemovedOnReturn ==
    \A c \in Clients :
        (acq[c].op = "aquireFile" /\ acq[c].pc = "done" /\ acq[c].outcome \in {"ConfigDoesNotExist", "OK"} /\ Alone(c)) => ~disk.lock

\* ------------------------------------------------------------------------
\* C33
\* ------------------------------------------------------------------------

\* The request of c was a save, with an expected token other than the
\* stored one, on a key under which a document is stored; its backend
\* calls may have met transport failures.
StaleSaveAnyTransport(c) ==
    /\ req[c].pc = "done" /\ req[c].op = "PUT" /\ req[c].outcome # "BadRequest"
    /\ Present(pre, req[c].key)
    /\ req[c].ifMatch # StoredToken(pre, req[c].key)

\* C33: exists reports absence only when no document is stored: a failure
\* of the existence probe is not reported as false, so a save on a present
\* key is never treated as a first write, skipping the token check.
C33_ProbeFailureIsNotAbsence ==
    \A c \in Clients :
        StaleSaveAnyTransport(c) =>
            /\ "save" \notin req[c].called
            /\ req[c].outcome # "OK"

\* The probe of a key the ObjectStore holds failed; the save, which carried
\* a token other than the stored one, went on without load or token check
\* and was answered OK.
C33_SaveTreatedAsFirstWrite ==
    \E c \in Clients :
        /\ StaleSaveAnyTransport(c)
        /\ req[c].key.registry = "s3"
        /\ req[c].faulted
        /\ req[c].called = {"exists", "save"}
        /\ req[c].outcome = "OK"

\* On the BlobStore, whose probe raises the failure, no such save is made.
BlobProbeFailureRaised ==
    \A c \in Clients :
        (StaleSaveAnyTransport(c) /\ req[c].key.registry = "az") => "save" \notin req[c].called

\* ------------------------------------------------------------------------
\* C34
\* ------------------------------------------------------------------------

\* The load request of c was answered with a fresh document for a key that
\* held nothing.
Ensured(c) ==
    /\ Answered(c, "GET")
    /\ AbsentKey(pre, req[c].key) /\ req[c].ensure
    /\ req[c].outcome = "OK"

\* C34: exists and load never change stored state; a load with the ensure
\* flag on an absent key returns a fresh document without storing it, so
\* exists on the key is still false and a following save with the
\* none-sentinel still passes as a first write.
C34_ReadsChangeNothing ==
    /\ [](\A c \in Clients :
             /\ (req[c].pc = "done" /\ req[c].op = "GET") => store = pre
             /\ Ensured(c) =>
                    /\ AbsentKey(store, req[c].key)
                    /\ RunPut(store, req[c].key, NoToken, req[c].body).saved)
    /\ [][\A c \in Clients :
             (req[c].pc \in {"exists", "load"} /\ req'[c] # req[c]) => store' = store]_vars

\* A load with the flag has returned a fresh document for a key of the
\* BlobStore, which holds nothing under it.
C34_Witness ==
    \E c \in Clients :
        /\ Ensured(c)
        /\ req[c].key.registry = "az"
        /\ req[c].body = createNew(2)
        /\ store["azure"][<<req[c].key.namespace, req[c].key.name>>] = Absent

\* ------------------------------------------------------------------------
\* C35
\* ------------------------------------------------------------------------

\* The save request of c has ended and its payload was not a well-formed
\* document.
InvalidSave(c) == req[c].pc = "done" /\ req[c].op = "PUT" /\ req[c].payload = Invalid

\* C35: a save whose payload does not parse performs no backend write and
\* leaves the stored document unchanged; the token check comes before the
\* parse, so a stale token together with an invalid payload ends in
\* PreconditionFailed.
C35_InvalidPayloadWritesNothing ==
    \A c \in Clients :
        InvalidSave(c) =>
            /\ ~req[c].wrote /\ "save" \notin req[c].called
            /\ store = pre
            /\ req[c].outcome # "OK"
            /\ HashCheckFailed(SourceHash(req[c].source), req[c].ifMatch) => req[c].outcome = "PreconditionFailed"

\* A save with an invalid payload and a token other than the stored
\* document's was refused on the token.
C35_Witness ==
    \E c \in Clients :
        /\ InvalidSave(c)
        /\ req[c].source \in Docs
        /\ req[c].ifMatch \in Tokens \ {NoToken, SourceHash(req[c].source)}
        /\ req[c].outcome = "PreconditionFailed"

\* A save with an invalid payload and the stored document's token failed in
\* the parse, the stored document in place.
C35_ParseRefused ==
    \E c \in Clients :
        /\ InvalidSave(c)
        /\ req[c].source \in Docs
        /\ req[c].ifMatch = SourceHash(req[c].source)
        /\ req[c].outcome = "Corrupt"
        /\ KeyLoad(store, req[c].key) = Ok(req[c].source)

\* ------------------------------------------------------------------------
\* C36
\* ------------------------------------------------------------------------

\* The version check rejected the request of c: it ended as a bad request
\* before any operation was called.
Rejected(c) == req[c].pc = "done" /\ req[c].outcome = "BadRequest" /\ req[c].called = {}

\* The version a header declares: a missing header declares 0.0.0, a header
\* without a number declares none.
Declares(header, v) ==
    CASE header = NoVersion -> v = 0
      [] header = NoDigits -> FALSE
      [] OTHER -> v = header[1]

\* C36: the request version check accepts a request if and only if its
\* declared version, coerced, equals the server's version; a missing header
\* is checked as 0.0.0 and a header that cannot be coerced is rejected as a
\* bad request.
C36_VersionCheckIsEquality ==
    \A c \in Clients :
        Gated(c) =>
            /\ ~Rejected(c) <=> Declares(req[c].header, resolveApiVersion)
            /\ req[c].header = NoVersion => (~Rejected(c) <=> SemverEq(0, resolveApiVersion))
            /\ req[c].header = NoDigits => Rejected(c)

\* A request with a header that holds no version was rejected.
C36_Witness ==
    \E c \in Clients : Rejected(c) /\ req[c].header = NoDigits /\ store = pre

\* A request with the server's version went on to the handler.
C36_MatchingAccepted ==
    \E c \in Clients : Gated(c) /\ ~Rejected(c) /\ req[c].header = Tag(API_VERSION) /\ "exists" \in req[c].called

\* A request without version header was rejected by a server whose
\* version is not 0.0.0.
C36_MissingHeaderRejected ==
    \E c \in Clients : Rejected(c) /\ req[c].header = NoVersion

\* ------------------------------------------------------------------------
\* C37
\* ------------------------------------------------------------------------

\* A load reached the BlobStore or the ObjectStore, which held something
\* under the key; the call met no transport failure.
LoadOfStored ==
    /\ reg # NoCall /\ reg.op = "load" /\ ~reg.fault
    /\ reg.calls # <<>>
    /\ ServedBy.storageType \in {"azureBlobStorage", "s3"}
    /\ HeldBefore # Absent

C37_UntaggedLoaded ==
    /\ LoadOfStored
    /\ HeldBefore.version = NoVersion
    /\ reg.out.ok /\ reg.out.val \in Docs

\* ------------------------------------------------------------------------
\* C38
\* ------------------------------------------------------------------------

\* The position of the backend that getBackend returned, 0 when it threw.
ResolvedAt ==
    IF route.resolved.ok
    THEN CHOOSE i \in 1 .. Len(route.backends) : route.backends[i] = route.resolved.val
    ELSE 0

\* The backend at position i was configured without a patterns list.
Unpatterned(i) == route.backends[i].configured = NoPatterns

\* The backend at position i was configured with an empty patterns list.
EmptyPatterned(i) == route.backends[i].configured = SomePatterns(<<>>)

\* C38: a backend configured without a patterns list is given the single
\* pattern '**' and matches every key, so no backend declared after it is
\* ever resolved; a backend configured with an empty list matches no key.
C38_DefaultIsCatchAll ==
    route # NoRoute =>
        \A i \in 1 .. Len(route.backends) :
            /\ Unpatterned(i) =>
                   /\ route.backends[i].patterns = << <<"**">> >>
                   /\ i \in Matching
                   /\ ResolvedAt \in 1 .. i
            /\ EmptyPatterned(i) => (i \notin Matching /\ ResolvedAt # i)

\* A key whose name begins with a period went past a backend configured
\* without a patterns list to a backend declared after it.
C38_HiddenKeyPassesCatchAll ==
    /\ route # NoRoute
    /\ Len(route.backends) = 2
    /\ Unpatterned(1)
    /\ route.file = <<"az", "a", DotName>>
    /\ ResolvedAt = 2

\* A key whose name begins with a period is refused by a table whose only
\* backend has no patterns list.
HiddenKeyUnrouted ==
    /\ route # NoRoute
    /\ Len(route.backends) = 1
    /\ Unpatterned(1)
    /\ route.file = <<"az", "a", DotName>>
    /\ route.resolved = Throw("NoBackendMatched")

\* No segment of the key begins with a period.
VisibleFile == \A k \in 1 .. Len(route.file) : ~Hidden(route.file[k])

\* For keys none of whose segments begins with a period the default is a
\* catch-all, and an empty list matches nothing whatever the key.
DefaultCatchesVisibleKeys ==
    route # NoRoute =>
        \A i \in 1 .. Len(route.backends) :
            /\ Unpatterned(i) => route.backends[i].patterns = << <<"**">> >>
            /\ (Unpatterned(i) /\ VisibleFile) => (i \in Matching /\ ResolvedAt \in 1 .. i)
            /\ EmptyPatterned(i) => (i \notin Matching /\ ResolvedAt # i)

====
